---- MODULE Spec2Model ----
(***************************************************************************)
(* State-machine model of the query-analysis workflow:                     *)
(*   - ContextProtocol            (src/src/agents/context.py)              *)
(*   - MetadataAgent              (src/src/agents/metadata_agent.py)       *)
(*   - ExtractorAgent             (src/src/agents/extractor_agent.py)      *)
(*   - CoordinatorAgent           (src/src/agents/coordinator.py)          *)
(*   - TrinoConnectionManager     (src/src/trino_connection/...)           *)
(*   - the legacy CoordinatorAgent with retries (src/src/agents/core.py)   *)
(*   - the interactive driver     (src/tests/test_metadata_agent.py)       *)
(*   - the /analyze endpoint      (src/src/app/main.py)                    *)
(* External collaborators (the LLM behind MetadataAgent, the Trino server, *)
(* the LLM behind VisualizationAgent) are nondeterministic choices.        *)
(***************************************************************************)
EXTENDS Integers, Sequences, FiniteSets, TLC

(***************************************************************************)
(* Bounds of the model.                                                    *)
(***************************************************************************)
MaxAmb == 2        \* longest ambiguity list the Reasoner returns
MaxCalls == 3      \* top-level Coordinator.execute calls of one driver run
MaxRows == 6       \* most rows a query returns
MaxTime == 2       \* latest value of int(time.time())
MaxCoreCalls == 5  \* execute calls on the legacy coordinator
MaxCtx == 2        \* Context instances alive at once
MaxInPlace == 2    \* in-place changes (log_step, item assignment) made to Contexts
MaxCompiles == 2   \* ExtractorAgent.execute calls on one plan
MaxVersion == 1    \* highest version of a Context handed to ExtractorAgent
MaxPasses == 2     \* _validate_result passes over one plan
MaxRequests == 2   \* requests /analyze serves

(***************************************************************************)
(* Program constants.                                                      *)
(***************************************************************************)
SampleRows == 5    \* _complete_phase reads up to 5 sample rows
max_retries == 3   \* core.CoordinatorAgent.max_retries

None == "None"
EmptyDict == <<>>

Questions == {"Q1", "Q2"}
Suggestion == "suggestion"
TheQuery == "total rentals by city"
TheProject == "p1"

(***************************************************************************)
(* Python dict helpers.                                                    *)
(***************************************************************************)
DictGet(d, k, default) == IF k \in DOMAIN d THEN d[k] ELSE default

DictUpdate(d, updates) ==
  [k \in (DOMAIN d) \cup (DOMAIN updates) |->
     IF k \in DOMAIN updates THEN updates[k] ELSE d[k]]

RECURSIVE JoinStr(_, _)
JoinStr(parts, sep) ==
  IF parts = <<>> THEN ""
  ELSE IF Len(parts) = 1 THEN parts[1]
  ELSE parts[1] \o sep \o JoinStr(Tail(parts), sep)

Min(a, b) == IF a <= b THEN a ELSE b

(***************************************************************************)
(* ContextProtocol: a dataclass (query, project_id, version, _data).       *)
(***************************************************************************)
DataclassFields == {"query", "project_id", "version", "_data"}
MethodNames == {"get", "update", "log_step", "snapshot"}

ContextNew(q, p) ==
  [query |-> q, project_id |-> p, version |-> 0,
   data |-> [metadata |-> EmptyDict, reasoning_steps |-> <<>>,
             clarifications |-> EmptyDict,
             query |-> q, project_id |-> p, version |-> 0]]

\* hasattr(self, key): dataclass fields, methods, and (through __getattr__)
\* every key of _data.
HasAttr(c, key) ==
  key \in DataclassFields \cup MethodNames \cup DOMAIN c.data

GetAttr(c, key) ==
  CASE key = "query" -> c.query
    [] key = "project_id" -> c.project_id
    [] key = "version" -> c.version
    [] key \in MethodNames -> "<bound method ContextProtocol." \o key \o ">"
    [] OTHER -> c.data[key]

\* A get that ignores what the Context stores.
ContextGetDefaultOnly(c, key, default) == default

ContextGet(c, key, default) ==
  IF HasAttr(c, key) /\ key # "_data"
  THEN GetAttr(c, key)
  ELSE DictGet(c.data, key, default)

\* An update that hands the version on as it is.
ContextUpdateSameVersion(c, updates) ==
  [query |-> DictGet(updates, "query", c.query),
   project_id |-> DictGet(updates, "project_id", c.project_id),
   version |-> c.version,
   data |-> [DictUpdate(c.data, updates) EXCEPT !["version"] = c.version]]

ContextUpdate(c, updates) ==
  LET new_data == [DictUpdate(c.data, updates) EXCEPT !["version"] = c.version + 1]
  IN [query |-> DictGet(updates, "query", c.query),
      project_id |-> DictGet(updates, "project_id", c.project_id),
      version |-> c.version + 1,
      data |-> new_data]

\* log_step: in-place append on this instance (details and timestamp of the
\* entry are not modelled; agent and action identify the entry).
ContextLogStep(c, agent, action) ==
  LET steps == DictGet(c.data, "reasoning_steps", <<>>)
      entry == [agent |-> agent, action |-> action]
  IN [c EXCEPT !.data = DictUpdate(c.data, [reasoning_steps |-> Append(steps, entry)])]

ContextSnapshot(c) == c.data

(***************************************************************************)
(* ExtractorAgent._generate_aggregated_sql: the SQL compiler.  A plan is a *)
(* dict (function from key to value); lists are sequences; SQL is text.    *)
(* The result is [ok |-> TRUE, sql |-> text] or, where the code raises     *)
(* ValueError, [ok |-> FALSE, error |-> message].                          *)
(***************************************************************************)
ErrSelectMissing == "Cannot generate query: 'initial_select_columns' is missing, empty, or not a list in the metadata plan."
ErrSelectEmpty == "Cannot generate query: SQL SELECT list is empty after processing initial_select_columns."
ErrNoBaseTable == "Cannot determine base table: No joins or initial tables found in metadata plan."
ErrMissingPlan == "Missing 'initial_tables' key or metadata plan in context."

Upper(s) ==
  CASE s = "left" -> "LEFT"
    [] s = "inner" -> "INNER"
    [] s = "asc" -> "ASC"
    [] s = "desc" -> "DESC"
    [] OTHER -> s

\* An entry whose expression or alias is not a str carries `not_str`.
WellFormedSelect(item) ==
  "expression" \in DOMAIN item /\ "alias" \in DOMAIN item /\ "not_str" \notin DOMAIN item

\* The SELECT list re-derived from group_by_columns and aggregations.
SelectItemsRederived(objs, plan) ==
  DictGet(plan, "group_by_columns", <<>>)
  \o [i \in DOMAIN DictGet(plan, "aggregations", <<>>) |->
        plan.aggregations[i].expression \o " AS " \o plan.aggregations[i].alias]

RECURSIVE SelectItems(_, _)
SelectItems(objs, plan) ==
  IF objs = <<>> THEN <<>>
  ELSE LET item == Head(objs)
       IN IF ~WellFormedSelect(item)
          THEN SelectItems(Tail(objs), plan)
          ELSE <<item.expression \o " AS " \o item.alias>> \o SelectItems(Tail(objs), plan)

JoinKeys == {"type", "right_table", "left_table", "left_column", "right_column"}

RECURSIVE JoinClauses(_)
JoinClauses(joins) ==
  IF joins = <<>> THEN <<>>
  ELSE LET join == Head(joins)
       IN IF ~(JoinKeys \subseteq DOMAIN join)
          THEN JoinClauses(Tail(joins))
          ELSE <<Upper(join.type) \o " JOIN " \o join.right_table \o " ON "
                 \o join.left_table \o "." \o join.left_column \o " = "
                 \o join.right_table \o "." \o join.right_column>>
               \o JoinClauses(Tail(joins))

RECURSIVE ValidFilters(_)
ValidFilters(filters) ==
  IF filters = <<>> THEN <<>>
  ELSE LET f == Head(filters)
       IN IF "condition" \in DOMAIN f
          THEN <<" " \o f.condition>> \o ValidFilters(Tail(filters))
          ELSE ValidFilters(Tail(filters))

RECURSIVE HavingConditions(_)
HavingConditions(conds) ==
  IF conds = <<>> THEN <<>>
  ELSE LET c == Head(conds)
       IN IF DictGet(c, "condition", "") # ""
          THEN <<c.condition>> \o HavingConditions(Tail(conds))
          ELSE HavingConditions(Tail(conds))

RECURSIVE SortTerms(_)
SortTerms(specs) ==
  IF specs = <<>> THEN <<>>
  ELSE LET spec == Head(specs)
           direction == Upper(DictGet(spec, "direction", "ASC"))
       IN IF DictGet(spec, "column", "") # ""
          THEN <<spec.column \o " "
                 \o (IF direction \in {"ASC", "DESC"} THEN direction ELSE "ASC")>>
               \o SortTerms(Tail(specs))
          ELSE SortTerms(Tail(specs))

\* limit_count as json.loads can deliver it:
\*   [kind |-> "none"]                 absent or null
\*   [kind |-> "int", val |-> n]       an integer
\*   [kind |-> "float", tenths |-> n]  the float n/10
\*   [kind |-> "inf", sign |-> s]      Infinity / -Infinity
\*   [kind |-> "str", val |-> n]       a string of digits, e.g. "5"
\*   [kind |-> "text"]                 any other string
\*   [kind |-> "bool", truth |-> b]    true / false
\*   [kind |-> "list"]                 a list or an object
\* int(x): [exc |-> "", val |-> n] or the exception it raises.
PyInt(x) ==
  CASE x.kind = "int" -> [exc |-> "", val |-> x.val]
    [] x.kind = "float" -> [exc |-> "",
                            val |-> IF x.tenths >= 0 THEN x.tenths \div 10
                                    ELSE 0 - ((0 - x.tenths) \div 10)]
    [] x.kind = "inf" -> [exc |-> "OverflowError", val |-> 0]
    [] x.kind = "str" -> [exc |-> "", val |-> x.val]
    [] x.kind = "text" -> [exc |-> "ValueError", val |-> 0]
    [] x.kind = "bool" -> [exc |-> "", val |-> IF x.truth THEN 1 ELSE 0]
    [] OTHER -> [exc |-> "TypeError", val |-> 0]

ErrOverflow == "cannot convert float infinity to integer"

\* A LIMIT for every limit_count that is not None, unconverted.
LimitClauseUnchecked(plan) ==
  LET limit_count == DictGet(plan, "limit_count", [kind |-> "none"])
  IN IF limit_count.kind = "none" THEN [exc |-> "", text |-> ""]
     ELSE [exc |-> "", text |-> "LIMIT " \o ToString(PyInt(limit_count).val)]

\* Lines 186-195: [exc |-> "", text |-> clause], or the exception that
\* `except (ValueError, TypeError)` lets through.
LimitClause(plan) ==
  LET limit_count == DictGet(plan, "limit_count", [kind |-> "none"])
      limit_val == PyInt(limit_count)
  IN IF limit_count.kind = "none" THEN [exc |-> "", text |-> ""]
     ELSE IF limit_val.exc \in {"ValueError", "TypeError"} THEN [exc |-> "", text |-> ""]
     ELSE IF limit_val.exc # "" THEN [exc |-> limit_val.exc, text |-> ""]
     ELSE IF limit_val.val > 0
     THEN [exc |-> "", text |-> "LIMIT " \o ToString(limit_val.val)]
     ELSE [exc |-> "", text |-> ""]

RECURSIVE NonEmptyParts(_)
NonEmptyParts(parts) ==
  IF parts = <<>> THEN <<>>
  ELSE IF Head(parts).text = "" THEN NonEmptyParts(Tail(parts))
  ELSE <<Head(parts)>> \o NonEmptyParts(Tail(parts))

\* The parts list with WHERE ahead of the joins.
QueryPartsWhereFirst(select_clause, from_clause, join_clauses, where_clause, group_by_clause, having_clause, order_by_clause, limit_clause) ==
  <<[clause |-> "SELECT", text |-> select_clause],
    [clause |-> "FROM", text |-> from_clause],
    [clause |-> "WHERE", text |-> where_clause],
    [clause |-> "JOIN", text |-> join_clauses],
    [clause |-> "GROUP BY", text |-> group_by_clause],
    [clause |-> "HAVING", text |-> having_clause],
    [clause |-> "ORDER BY", text |-> order_by_clause],
    [clause |-> "LIMIT", text |-> limit_clause]>>

\* query_parts (lines 199-208); each text is tagged with the clause it is.
QueryParts(select_clause, from_clause, join_clauses, where_clause, group_by_clause, having_clause, order_by_clause, limit_clause) ==
  <<[clause |-> "SELECT", text |-> select_clause],
    [clause |-> "FROM", text |-> from_clause],
    [clause |-> "JOIN", text |-> join_clauses],
    [clause |-> "WHERE", text |-> where_clause],
    [clause |-> "GROUP BY", text |-> group_by_clause],
    [clause |-> "HAVING", text |-> having_clause],
    [clause |-> "ORDER BY", text |-> order_by_clause],
    [clause |-> "LIMIT", text |-> limit_clause]>>

\* order_by_spec: [form |-> "dict", spec |-> s], [form |-> "list",
\* specs |-> <<...>>], or anything else (None, a string), which is ignored.
OrderBySpecList(plan) ==
  LET order_by_spec_input == DictGet(plan, "order_by_spec", [form |-> "none"])
  IN IF order_by_spec_input.form = "dict" THEN <<order_by_spec_input.spec>>
     ELSE IF order_by_spec_input.form = "list" THEN order_by_spec_input.specs
     ELSE <<>>

\* The result carries, besides the SQL text, the non-empty parts it was
\* joined from (clause tag and text) and the rendered JOIN lines.
GenerateAggregatedSql(plan) ==
  LET planned == DictGet(plan, "initial_select_columns", <<>>)
      sql_select_items == SelectItems(planned, plan)
      select_clause == "SELECT " \o JoinStr(sql_select_items, ", ")
      joins_list == DictGet(plan, "initial_joins", <<>>)
      tables == DictGet(plan, "initial_tables", <<>>)
      has_join_base == joins_list # <<>> /\ "left_table" \in DOMAIN joins_list[1]
      base_table == IF has_join_base THEN joins_list[1].left_table ELSE tables[1]
      from_clause == "FROM " \o base_table
      join_clauses_list == JoinClauses(joins_list)
      join_clauses == JoinStr(join_clauses_list, "\n")
      valid_filters == ValidFilters(DictGet(plan, "initial_filters", <<>>))
      where_clause == IF valid_filters # <<>>
                      THEN "WHERE " \o JoinStr(valid_filters, " AND ") ELSE ""
      group_by_cols == DictGet(plan, "group_by_columns", <<>>)
      group_by_clause == IF group_by_cols # <<>>
                         THEN "GROUP BY " \o JoinStr(group_by_cols, ", ") ELSE ""
      having == JoinStr(HavingConditions(DictGet(plan, "having_conditions", <<>>)), " AND ")
      having_clause == IF having # "" THEN "HAVING " \o having ELSE ""
      sort_terms == SortTerms(OrderBySpecList(plan))
      order_by_clause == IF sort_terms # <<>>
                         THEN "ORDER BY " \o JoinStr(sort_terms, ", ") ELSE ""
      limit == LimitClause(plan)
      query_parts == NonEmptyParts(
                       QueryParts(select_clause, from_clause, join_clauses, where_clause,
                                  group_by_clause, having_clause, order_by_clause,
                                  limit.text))
  IN IF planned = <<>> THEN [ok |-> FALSE, error |-> ErrSelectMissing]
     ELSE IF sql_select_items = <<>> THEN [ok |-> FALSE, error |-> ErrSelectEmpty]
     ELSE IF ~has_join_base /\ tables = <<>> THEN [ok |-> FALSE, error |-> ErrNoBaseTable]
     ELSE IF limit.exc # "" THEN [ok |-> FALSE, error |-> ErrOverflow]
     ELSE [ok |-> TRUE,
           sql |-> JoinStr([i \in DOMAIN query_parts |-> query_parts[i].text], "\n"),
           parts |-> query_parts,
           join_lines |-> join_clauses_list]

(***************************************************************************)
(* ReasoningStep(agent, operation, details).                               *)
(***************************************************************************)
ReasoningStep(agent, operation, details) ==
  [agent |-> agent, operation |-> operation, details |-> details]

NoResult == ReasoningStep("none", "none", EmptyDict)

\* An execute() whose SQL text carries the version of the Context.
ExtractorExecuteStamped(c) ==
  LET metadata_plan == ContextGet(c, "metadata", EmptyDict)
      compiled == GenerateAggregatedSql(metadata_plan)
  IN IF DOMAIN metadata_plan = {} \/ DictGet(metadata_plan, "initial_tables", <<>>) = <<>>
     THEN ReasoningStep("ExtractorAgent", "error", [error |-> ErrMissingPlan])
     ELSE IF compiled.ok
     THEN ReasoningStep("ExtractorAgent", "sql_generation",
            [sql_query |-> compiled.sql \o "\n-- v" \o ToString(c.version)])
     ELSE ReasoningStep("ExtractorAgent", "error", [error |-> compiled.error])

\* ExtractorAgent.execute: the handler of EXTRACT, a function of the Context.
ExtractorExecute(c) ==
  LET metadata_plan == ContextGet(c, "metadata", EmptyDict)
      compiled == GenerateAggregatedSql(metadata_plan)
  IN IF DOMAIN metadata_plan = {} \/ DictGet(metadata_plan, "initial_tables", <<>>) = <<>>
     THEN ReasoningStep("ExtractorAgent", "error", [error |-> ErrMissingPlan])
     ELSE IF compiled.ok
     THEN ReasoningStep("ExtractorAgent", "sql_generation", [sql_query |-> compiled.sql])
     ELSE ReasoningStep("ExtractorAgent", "error", [error |-> compiled.error])

\* The compiler runs only past the guard on initial_tables.
CompilerInvoked(c) ==
  LET metadata_plan == ContextGet(c, "metadata", EmptyDict)
  IN DOMAIN metadata_plan # {} /\ DictGet(metadata_plan, "initial_tables", <<>>) # <<>>

(***************************************************************************)
(* Plans the Reasoner may return (the keys the compiler reads).            *)
(***************************************************************************)
PlanGrouped ==
  [initial_tables |-> <<"t">>,
   initial_select_columns |-> <<[expression |-> "t.a", alias |-> "t.a"],
                                [expression |-> "COUNT(*)", alias |-> "cnt"]>>,
   group_by_columns |-> <<"t.a">>,
   aggregations |-> <<[expression |-> "COUNT(*)", alias |-> "cnt"]>>,
   ambiguities |-> <<>>]

PlanEmptySelect ==
  [initial_tables |-> <<"t">>,
   initial_select_columns |-> <<[expression |-> "t.a"]>>,
   ambiguities |-> <<>>]

PlanNoTables ==
  [initial_select_columns |-> <<[expression |-> "t.a", alias |-> "a"]>>,
   ambiguities |-> <<>>]

Plans == {PlanGrouped, PlanEmptySelect, PlanNoTables}

(***************************************************************************)
(* State.                                                                  *)
(***************************************************************************)
VARIABLES
  workflow_state,  \* CoordinatorAgent.workflow_state
  context,         \* CoordinatorAgent.context
  conn,            \* TrinoConnectionManager._connection is not None
  pc,              \* position of the running execute() invocation
  stack,           \* states of the execute() frames awaiting a nested execute()
  phase_result,    \* local `result` of the running invocation
  result,          \* the ReasoningStep being returned / last returned
  output_file,     \* local `output_file` of the EXTRACT frame
  disk,            \* result files on disk: path -> number of data rows
  clock,           \* int(time.time())
  n,               \* calls made during the current top-level execute()
  calls,           \* top-level execute() calls made by the driver
  resubmitted,     \* the driver has answered the last clarification request
  answered,        \* history: every question the driver has answered so far
  artifact,        \* history: the visualization the Renderer produced last
  reasoner_output, \* history: the ambiguities the Reasoner returned last, unfiltered
  core_state,      \* core.CoordinatorAgent.workflow_state
  core_context,    \* core.CoordinatorAgent.context
  core_pc,         \* position inside core.CoordinatorAgent.execute
  core_attempt,    \* loop variable `attempt` of the retry loop
  core_raised,     \* history: outcome of each handler invocation of this call
  core_result,     \* the ReasoningStep core execute() returned last
  core_calls,      \* execute() calls made on the legacy coordinator
  heap,            \* Python objects (dicts and lists) by identity
  ctxs,            \* the ContextProtocol instances created so far
  origin,          \* history: the instance each Context was derived from
  last_op,         \* history: the last Context operation and what it saw before
  plan_in,         \* the metadata plan handed to ExtractorAgent
  compilations,    \* history: the ExtractorAgent.execute calls made on it
  raw_plan,        \* the dict json.loads made of the Reasoner's answer
  schema,          \* the project metadata of ProjectManager
  passes,          \* history: the outcome of each _validate_result pass
  analysis,        \* the ReasoningStep MetadataAgent.execute returned
  probe,           \* a caller's get(key, default) on a Context
  got,             \* what that get returned
  response,        \* the body /analyze answered its last request with
  entered,         \* history: the coordinator as its top-level execute() found it
  jobs,            \* two concurrent workflows: project, position, result path, rows read
  files,           \* storage/results: path -> the workflow whose rows the file holds
  now              \* int(time.time()) as the concurrent workflows read it

coordVars == <<workflow_state, context, conn, pc, stack, phase_result, result,
               output_file, disk, clock, n, calls, resubmitted, answered, artifact,
               reasoner_output>>
coreVars == <<core_state, core_context, core_pc, core_attempt,
              core_raised, core_result, core_calls>>
heapVars == <<heap, ctxs, origin, last_op>>
compilerVars == <<plan_in, compilations>>
validatorVars == <<raw_plan, schema, passes, analysis>>
getVars == <<probe, got>>
apiVars == <<response>>
ghostVars == <<entered>>
pairVars == <<jobs, files, now>>
clientVars == <<getVars, apiVars, ghostVars, pairVars>>
libVars == <<heapVars, compilerVars, validatorVars, clientVars>>
vars == <<coordVars, coreVars, libVars>>

NoFile == 0 - 1
Timestamps == 1..MaxTime
OutputDir(project_id, t) == "storage/results/" \o project_id \o "_" \o ToString(t)
OutputFile(project_id, t) == OutputDir(project_id, t) \o "/query_result.csv"
Paths == {OutputFile(TheProject, t) : t \in Timestamps}

Ambiguity(q) == [question |-> q, suggestion |-> Suggestion]
AmbiguityLists ==
  UNION {[1..k -> {Ambiguity(q) : q \in Questions}] : k \in 0..MaxAmb}

ZeroCalls == [analyze |-> 0, extract |-> 0, compile |-> 0, connect |-> 0,
              execute_query |-> 0, render |-> 0, complete |-> 0]

CoreError == "Core workflow execution failed"

FileExists(path) == path \in DOMAIN disk /\ disk[path] # NoFile

(***************************************************************************)
(* MetadataAgent.analyze: the post-processing of the Reasoner's answer.    *)
(***************************************************************************)
RECURSIVE NotAnswered(_, _)
NotAnswered(ambiguities, clarifications) ==
  IF ambiguities = <<>> THEN <<>>
  ELSE IF Head(ambiguities).question \notin DOMAIN clarifications
  THEN <<Head(ambiguities)>> \o NotAnswered(Tail(ambiguities), clarifications)
  ELSE NotAnswered(Tail(ambiguities), clarifications)

RECURSIVE OnlyAnswered(_, _)
OnlyAnswered(ambiguities, clarifications) ==
  IF ambiguities = <<>> THEN <<>>
  ELSE IF Head(ambiguities).question \in DOMAIN clarifications
  THEN <<Head(ambiguities)>> \o OnlyAnswered(Tail(ambiguities), clarifications)
  ELSE OnlyAnswered(Tail(ambiguities), clarifications)

Analyze(c, raw) ==
  LET clarifications == ContextGet(c, "clarifications", EmptyDict)
  IN IF "ambiguities" \in DOMAIN raw /\ DOMAIN clarifications # {}
     THEN [raw EXCEPT !.ambiguities = NotAnswered(raw.ambiguities, clarifications)]
     ELSE raw

(***************************************************************************)
(* MetadataAgent._validate_result.  A dotted name ("t.x") is the sequence  *)
(* of its segments (<<"t", "x">>), so that split(".") and "." in s are     *)
(* computed on it; table names are plain strings.  A value that may be of  *)
(* another type than str is [segs |-> s] (a str), [expr |-> e] (a str      *)
(* holding " AS ", "||" or "CONCAT") or [int |-> n]; a list entry that is  *)
(* not a dict is [py |-> type].  The outcome of a call is                  *)
(* [exc |-> "", plan |-> result] or [exc |-> the exception raised].        *)
(***************************************************************************)
IsDict(x) == "py" \notin DOMAIN x
IsStr(v) == "int" \notin DOMAIN v

Last(s) == s[Len(s)]
Front(s) == SubSeq(s, 1, Len(s) - 1)

ExpectedKeys == {"tables", "columns", "joins", "filters", "drill_down", "ambiguities"}

\* Lines 77-82.
CompleteKeys(r) ==
  [k \in DOMAIN r \cup ExpectedKeys |->
     IF k \in DOMAIN r THEN r[k]
     ELSE IF k = "columns" THEN EmptyDict
     ELSE IF k = "drill_down" THEN [levels |-> <<>>]
     ELSE <<>>]

\* Lines 85-89: "table.name" -> the schema's column descriptor.
AllMetaCols(metadata) ==
  LET columns == DictGet(metadata, "columns", EmptyDict)
      pairs == UNION {{[key |-> <<table>> \o columns[table][i].name,
                        col |-> columns[table][i]] : i \in DOMAIN columns[table]} :
                      table \in DOMAIN columns}
  IN [k \in {p.key : p \in pairs} |-> (CHOOSE p \in pairs : p.key = k).col]

\* Line 90.
AllMetaTables(metadata) ==
  LET tables == DictGet(metadata, "tables", <<>>)
  IN {tables[i] : i \in DOMAIN tables}

\* Lines 94-109.
KeptTables(columns, all_meta_tables) ==
  {t \in DOMAIN columns : all_meta_tables = {} \/ t \in all_meta_tables}

ColumnsRaise(columns, all_meta_tables) ==
  \E t \in KeptTables(columns, all_meta_tables) :
    \E i \in DOMAIN columns[t] : "name" \notin DOMAIN columns[t][i]

ValidateColumns(columns, all_meta_cols, all_meta_tables) ==
  [t \in KeptTables(columns, all_meta_tables) |->
     [i \in DOMAIN columns[t] |->
        LET col == columns[t][i]
            full_name == <<t>> \o col.name
        IN IF full_name \in DOMAIN all_meta_cols THEN all_meta_cols[full_name] ELSE col]]

\* Lines 114-118.
JoinFormatOk(join) ==
  IsDict(join) /\ {"left_table", "left_column", "right_table", "right_column"} \subseteq DOMAIN join

JoinsRaise(joins) ==
  \E i \in DOMAIN joins :
    JoinFormatOk(joins[i]) /\ (~IsStr(joins[i].left_column) \/ ~IsStr(joins[i].right_column))

ShortName(v) == IF Len(v.segs) > 1 THEN <<Last(v.segs)>> ELSE v.segs

\* Lines 112-137.
RECURSIVE ValidateJoins(_, _, _)
ValidateJoins(joins, all_meta_cols, all_meta_tables) ==
  IF joins = <<>> THEN <<>>
  ELSE LET join == Head(joins)
           rest == ValidateJoins(Tail(joins), all_meta_cols, all_meta_tables)
           left_col == ShortName(join.left_column)
           right_col == ShortName(join.right_column)
           left_full_col == <<join.left_table>> \o left_col
           right_full_col == <<join.right_table>> \o right_col
       IN IF ~JoinFormatOk(join) THEN rest
          ELSE IF /\ DOMAIN all_meta_cols # {}
                  /\ \/ join.left_table \notin all_meta_tables
                     \/ join.right_table \notin all_meta_tables
                     \/ /\ left_full_col \notin DOMAIN all_meta_cols
                        /\ right_full_col \notin DOMAIN all_meta_cols
          THEN rest
          ELSE <<[left_table |-> join.left_table, left_column |-> [segs |-> left_col],
                  right_table |-> join.right_table, right_column |-> [segs |-> right_col],
                  type |-> DictGet(join, "type", "LEFT")]>> \o rest

\* Lines 140-157.  Every branch appends the column to validated_cols, so a
\* level is left as it was; what changes is result["columns"].
DrillRaise(drill_down) ==
  \/ "levels" \notin DOMAIN drill_down
  \/ \E i \in DOMAIN drill_down.levels :
       \/ "columns" \notin DOMAIN drill_down.levels[i]
       \/ \E j \in DOMAIN drill_down.levels[i].columns :
            ~IsStr(drill_down.levels[i].columns[j])

RECURSIVE DrillColumns(_)
DrillColumns(levels) ==
  IF levels = <<>> THEN <<>>
  ELSE Head(levels).columns \o DrillColumns(Tail(levels))

\* The drill-down step without the test for a column already listed.
RECURSIVE AddDrillColumnsAlways(_, _, _)
AddDrillColumnsAlways(columns, cols, all_meta_cols) ==
  IF cols = <<>> THEN columns
  ELSE LET col == Head(cols)
           table == JoinStr(Front(col.segs), ".")
           full_name == <<table>> \o <<Last(col.segs)>>
       IN IF "expr" \notin DOMAIN col /\ full_name \in DOMAIN all_meta_cols
          THEN AddDrillColumnsAlways(
                 DictUpdate(columns, (table :> Append(DictGet(columns, table, <<>>),
                                                      all_meta_cols[full_name]))),
                 Tail(cols), all_meta_cols)
          ELSE AddDrillColumnsAlways(columns, Tail(cols), all_meta_cols)

RECURSIVE AddDrillColumns(_, _, _)
AddDrillColumns(columns, cols, all_meta_cols) ==
  IF cols = <<>> THEN columns
  ELSE LET col == Head(cols)
           table == JoinStr(Front(col.segs), ".")
           base_col == Last(col.segs)
           full_name == <<table>> \o <<base_col>>
           listed == DictGet(columns, table, <<>>)
       IN IF "expr" \in DOMAIN col
          THEN AddDrillColumns(columns, Tail(cols), all_meta_cols)
          ELSE IF /\ DOMAIN all_meta_cols # {}
                  /\ full_name \in DOMAIN all_meta_cols
                  /\ ~\E i \in DOMAIN listed : listed[i].name = <<base_col>>
          THEN AddDrillColumns(
                 DictUpdate(columns, (table :> Append(listed, all_meta_cols[full_name]))),
                 Tail(cols), all_meta_cols)
          ELSE AddDrillColumns(columns, Tail(cols), all_meta_cols)

\* Lines 160-163.
RECURSIVE ValidateFilters(_, _)
ValidateFilters(filters, all_meta_cols) ==
  IF filters = <<>> THEN <<>>
  ELSE LET filt == Head(filters)
           rest == ValidateFilters(Tail(filters), all_meta_cols)
       IN IF /\ IsDict(filt)
             /\ \/ DOMAIN all_meta_cols = {}
                \/ "column" \in DOMAIN filt /\ filt.column \in DOMAIN all_meta_cols
          THEN <<filt>> \o rest
          ELSE rest

\* Lines 166-167.
RECURSIVE KnownTables(_, _)
KnownTables(tables, all_meta_tables) ==
  IF tables = <<>> THEN <<>>
  ELSE IF Head(tables) \in all_meta_tables
  THEN <<Head(tables)>> \o KnownTables(Tail(tables), all_meta_tables)
  ELSE KnownTables(Tail(tables), all_meta_tables)

\* _validate_result (lines 75-167).
ValidateResult(llm_result, metadata) ==
  LET r == CompleteKeys(llm_result)
      all_meta_cols == AllMetaCols(metadata)
      all_meta_tables == AllMetaTables(metadata)
      columns == ValidateColumns(r.columns, all_meta_cols, all_meta_tables)
  IN IF ColumnsRaise(r.columns, all_meta_tables) THEN [exc |-> "KeyError: 'name'"]
     ELSE IF JoinsRaise(r.joins)
     THEN [exc |-> "TypeError: argument of type 'int' is not iterable"]
     ELSE IF DrillRaise(r.drill_down) THEN [exc |-> "KeyError or TypeError in drill_down"]
     ELSE [exc |-> "",
           plan |-> [r EXCEPT
             !.columns = AddDrillColumns(columns, DrillColumns(r.drill_down.levels),
                                         all_meta_cols),
             !.joins = ValidateJoins(r.joins, all_meta_cols, all_meta_tables),
             !.filters = ValidateFilters(r.filters, all_meta_cols),
             !.tables = IF all_meta_tables # {}
                        THEN KnownTables(r.tables, all_meta_tables) ELSE r.tables]]

\* MetadataAgent.execute (lines 23-42) once the Reasoner has answered with
\* `raw`: analyze's filter, _validate_result, and the except clause.
MetadataExecute(c, raw, metadata) ==
  LET validated == ValidateResult(Analyze(c, raw), metadata)
  IN IF validated.exc # ""
     THEN ReasoningStep("MetadataAgent", "error", [error |-> validated.exc])
     ELSE ReasoningStep("MetadataAgent", "metadata_analysis", validated.plan)

\* The coordinator's filter with the membership test inverted.
UnresolvedInverted(ambiguities, c) ==
  OnlyAnswered(ambiguities, ContextGet(c, "clarifications", EmptyDict))

\* coordinator.py line 53.
Unresolved(ambiguities, c) ==
  NotAnswered(ambiguities, ContextGet(c, "clarifications", EmptyDict))

StateAfterAnalyze == "EXTRACT"
StateAfterExtractSkipping == "COMPLETE"
StateAfterExtract == "VISUALIZE"
StateAfterVisualize == "COMPLETE"

(***************************************************************************)
(* Initial state: a fresh Context (workflow_state defaults to ANALYZE), a  *)
(* connection manager handed over connected (/analyze) or not (driver).    *)
(***************************************************************************)
InitCoord ==
  /\ context = ContextNew(TheQuery, TheProject)
  /\ workflow_state = ContextGet(ContextNew(TheQuery, TheProject), "workflow_state", "ANALYZE")
  /\ conn \in BOOLEAN
  /\ pc = "idle"
  /\ stack = <<>>
  /\ phase_result = NoResult
  /\ result = NoResult
  /\ output_file = None
  /\ disk = [p \in Paths |-> NoFile]
  /\ clock = 1
  /\ n = ZeroCalls
  /\ calls = 0
  /\ resubmitted = FALSE
  /\ answered = {}
  /\ artifact = None
  /\ reasoner_output = <<>>

(***************************************************************************)
(* The driver (tests/test_metadata_agent.py): it calls execute(), and when *)
(* clarification is needed it answers every returned question and puts the *)
(* answers into the Context with update({"clarifications": answers}).      *)
(***************************************************************************)
Call ==
  /\ pc = "idle"
  /\ calls < MaxCalls
  /\ result.operation = "clarification_needed" => resubmitted
  /\ pc' = "enter"
  /\ stack' = <<>>
  /\ phase_result' = NoResult
  /\ n' = ZeroCalls
  /\ calls' = calls + 1
  /\ result' = NoResult
  /\ resubmitted' = FALSE
  /\ entered' = [entered EXCEPT !.workflow_state = workflow_state, !.version = context.version]
  /\ UNCHANGED <<coreVars, heapVars, compilerVars, validatorVars, getVars, apiVars,
                 pairVars, reasoner_output>>
  /\ UNCHANGED <<workflow_state, context, conn, output_file, disk, clock,
                 answered, artifact>>

\* CoordinatorAgent(context, conn_manager) on the Context an earlier
\* coordinator left (lines 18-28): the new coordinator takes its state from
\* the Context.
Rebuild ==
  /\ pc = "idle"
  /\ ~entered.built
  /\ workflow_state' = ContextGet(context, "workflow_state", "ANALYZE")
  /\ entered' = [entered EXCEPT !.built = TRUE]
  /\ UNCHANGED <<coreVars, heapVars, compilerVars, validatorVars, getVars, apiVars,
                 pairVars, reasoner_output>>
  /\ UNCHANGED <<context, conn, pc, stack, phase_result, result, output_file, disk,
                 clock, n, calls, resubmitted, answered, artifact>>

Resubmit ==
  /\ pc = "idle"
  /\ result.operation = "clarification_needed"
  /\ ~resubmitted
  /\ LET asked == {result.details.ambiguities[i].question :
                     i \in DOMAIN result.details.ambiguities}
         clarifications == [q \in asked |-> Suggestion]
     IN /\ context' = ContextUpdate(context, [clarifications |-> clarifications])
        /\ answered' = answered \cup asked
  /\ resubmitted' = TRUE
  /\ UNCHANGED <<coreVars, libVars, reasoner_output>>
  /\ UNCHANGED <<workflow_state, conn, pc, stack, phase_result, result, output_file,
                 disk, clock, n, calls, artifact>>

(***************************************************************************)
(* CoordinatorAgent.execute (coordinator.py), one action per step.         *)
(***************************************************************************)
\* Lines 33-38: every invocation, nested ones too, logs workflow_init.
Enter ==
  /\ pc = "enter"
  /\ context' = ContextLogStep(context, "CoordinatorAgent", "workflow_init")
  /\ pc' = "handler"
  /\ UNCHANGED <<coreVars, libVars, reasoner_output>>
  /\ UNCHANGED <<workflow_state, conn, stack, phase_result, result, output_file,
                 disk, clock, n, calls, resubmitted, answered, artifact>>

\* The outer `except Exception` of execute (lines 192-198).
Raised == ReasoningStep("Coordinator", "error", [error |-> CoreError])

\* _analyze_phase: MetadataAgent(...) may raise in its constructor; its
\* execute() returns metadata_analysis or, on any exception, error.
AnalyzePhase ==
  /\ pc = "handler"
  /\ workflow_state = "ANALYZE"
  /\ n' = [n EXCEPT !.analyze = @ + 1]
  /\ \/ /\ result' = Raised
        /\ pc' = "unwind"
        /\ UNCHANGED <<phase_result, reasoner_output>>
     \/ /\ phase_result' = ReasoningStep("MetadataAgent", "error", [error |-> "analysis failed"])
        /\ pc' = "dispatch"
        /\ UNCHANGED <<result, reasoner_output>>
     \/ /\ \E plan \in Plans, ambiguities \in AmbiguityLists :
             /\ reasoner_output' = ambiguities
             /\ phase_result' = MetadataExecute(context,
                                  [plan EXCEPT !.ambiguities = ambiguities], EmptyDict)
        /\ pc' = "dispatch"
        /\ UNCHANGED result
  /\ UNCHANGED <<coreVars, libVars>>
  /\ UNCHANGED <<workflow_state, context, conn, stack, output_file, disk, clock,
                 calls, resubmitted, answered, artifact>>

\* Lines 50-75.
DispatchAnalyze ==
  /\ pc = "dispatch"
  /\ workflow_state = "ANALYZE"
  /\ IF phase_result.operation = "metadata_analysis"
     THEN LET ambiguities == DictGet(phase_result.details, "ambiguities", <<>>)
              unresolved == Unresolved(ambiguities, context)
          IN IF unresolved # <<>>
             THEN /\ result' = ReasoningStep("Coordinator", "clarification_needed",
                                             [ambiguities |-> unresolved])
                  /\ pc' = "unwind"
                  /\ UNCHANGED <<workflow_state, context, stack>>
             ELSE /\ workflow_state' = StateAfterAnalyze
                  /\ context' = ContextLogStep(
                       ContextUpdate(context, [metadata |-> phase_result.details,
                                               workflow_state |-> StateAfterAnalyze]),
                       "CoordinatorAgent", "state_transition")
                  /\ stack' = Append(stack, workflow_state)
                  /\ pc' = "enter"
                  /\ UNCHANGED result
     ELSE /\ result' = phase_result
          /\ pc' = "unwind"
          /\ UNCHANGED <<workflow_state, context, stack>>
  /\ UNCHANGED <<coreVars, libVars, reasoner_output>>
  /\ UNCHANGED <<conn, phase_result, output_file, disk, clock, n, calls,
                 resubmitted, answered, artifact>>

\* _extract_phase: ExtractorAgent.execute never raises; it logs its step on
\* success.
ExtractPhase ==
  /\ pc = "handler"
  /\ workflow_state = "EXTRACT"
  /\ phase_result' = ExtractorExecute(context)
  /\ context' = IF ExtractorExecute(context).operation = "sql_generation"
                THEN ContextLogStep(context, "ExtractorAgent", "sql_generation")
                ELSE context
  /\ n' = [n EXCEPT !.extract = @ + 1,
                    !.compile = @ + (IF CompilerInvoked(context) THEN 1 ELSE 0)]
  /\ pc' = "dispatch"
  /\ UNCHANGED <<coreVars, libVars, reasoner_output>>
  /\ UNCHANGED <<workflow_state, conn, stack, result, output_file, disk, clock,
                 calls, resubmitted, answered, artifact>>

\* An EXTRACT dispatch that runs the handler again after an error.
DispatchExtractRetrying ==
  /\ pc = "dispatch"
  /\ workflow_state = "EXTRACT"
  /\ IF phase_result.operation = "sql_generation"
     THEN pc' = "connect" /\ UNCHANGED result
     ELSE IF n.compile < 2
     THEN pc' = "handler" /\ UNCHANGED result
     ELSE result' = phase_result /\ pc' = "unwind"
  /\ UNCHANGED <<coreVars, libVars, reasoner_output>>
  /\ UNCHANGED <<workflow_state, context, conn, stack, phase_result, output_file,
                 disk, clock, n, calls, resubmitted, answered, artifact>>

\* Lines 78-82 and 146-149.
DispatchExtract ==
  /\ pc = "dispatch"
  /\ workflow_state = "EXTRACT"
  /\ IF phase_result.operation = "sql_generation"
     THEN IF DictGet(phase_result.details, "sql_query", "") = ""
          THEN /\ result' = ReasoningStep("Coordinator", "error",
                               [error |-> "ExtractorAgent did not return SQL query."])
               /\ pc' = "unwind"
          ELSE pc' = "connect" /\ UNCHANGED result
     ELSE result' = phase_result /\ pc' = "unwind"
  /\ UNCHANGED <<coreVars, libVars, reasoner_output>>
  /\ UNCHANGED <<workflow_state, context, conn, stack, phase_result, output_file,
                 disk, clock, n, calls, resubmitted, answered, artifact>>

ExecutionError ==
  ReasoningStep("Coordinator", "error",
                [error |-> "Trino query execution/write failed",
                 sql_query |-> phase_result.details.sql_query])

\* Lines 86-102: the output path is named after project_id and the clock;
\* connect() returns at once when a connection exists, else it opens one or
\* raises.
Connect ==
  /\ pc = "connect"
  /\ \E t \in {clock, clock + 1} \cap Timestamps :
       /\ clock' = t
       /\ output_file' = OutputFile(ContextGet(context, "project_id", None), t)
  /\ n' = [n EXCEPT !.connect = @ + 1]
  /\ \/ /\ conn' = TRUE
        /\ pc' = "query"
        /\ UNCHANGED result
     \/ /\ ~conn
        /\ result' = ExecutionError
        /\ pc' = "finally"
        /\ UNCHANGED conn
  /\ UNCHANGED <<coreVars, libVars, reasoner_output>>
  /\ UNCHANGED <<workflow_state, context, stack, phase_result, disk, calls,
                 resubmitted, answered, artifact>>

\* Lines 105-137: execute_query raises, or returns without writing a file
\* (no cursor.description), or writes the rows; then the Context is updated
\* and execute() is re-entered inside the try block.
ExecuteQuery ==
  /\ pc = "query"
  /\ n' = [n EXCEPT !.execute_query = @ + 1]
  /\ \/ /\ result' = ExecutionError
        /\ pc' = "finally"
        /\ UNCHANGED <<workflow_state, context, stack, disk>>
     \/ \E rows \in {NoFile} \cup (0..MaxRows) :
          LET retrieved_count == IF rows = NoFile THEN 0 ELSE rows
              project_id == ContextGet(context, "project_id", None)
              logged == ContextLogStep(context, "CoordinatorAgent", "data_retrieval")
          IN /\ disk' = IF rows = NoFile THEN disk
                        ELSE [disk EXCEPT ![output_file] = rows]
             /\ workflow_state' = StateAfterExtract
             /\ context' = ContextLogStep(
                  ContextUpdate(logged,
                    [workflow_state |-> StateAfterExtract,
                     sql_query |-> phase_result.details.sql_query,
                     query_result_path |-> output_file,
                     query_output_dir |-> OutputDir(project_id, clock),
                     query_result_row_count |-> retrieved_count]),
                  "CoordinatorAgent", "state_transition")
             /\ stack' = Append(stack, workflow_state)
             /\ pc' = "enter"
             /\ UNCHANGED result
  /\ UNCHANGED <<coreVars, libVars, reasoner_output>>
  /\ UNCHANGED <<conn, phase_result, output_file, clock, calls, resubmitted,
                 answered, artifact>>

\* Lines 142-144 with TrinoConnectionManager.close: the finally block of the
\* EXTRACT frame.  If the driver's close raises, _connection stays set and
\* the exception replaces the value being returned.
Finally ==
  /\ pc = "finally"
  /\ \/ /\ conn' = FALSE
        /\ UNCHANGED result
     \/ /\ conn
        /\ result' = Raised
        /\ UNCHANGED conn
  /\ pc' = "unwind"
  /\ UNCHANGED <<coreVars, libVars, reasoner_output>>
  /\ UNCHANGED <<workflow_state, context, stack, phase_result, output_file, disk,
                 clock, n, calls, resubmitted, answered, artifact>>

\* _visualize_phase: VisualizationAgent(...) may raise in its constructor;
\* execute() returns error when the result file is missing or rendering
\* fails, else visualization_generated (logged on the Context).
VisualizePhase ==
  /\ pc = "handler"
  /\ workflow_state = "VISUALIZE"
  /\ n' = [n EXCEPT !.render = @ + 1]
  /\ LET query_result_path == ContextGet(context, "query_result_path", None)
         failed == ReasoningStep("VisualizationAgent", "error",
                                 [error |-> "visualization failed"])
     IN \/ /\ result' = Raised
           /\ pc' = "unwind"
           /\ UNCHANGED <<phase_result, context, artifact>>
        \/ /\ phase_result' = failed
           /\ pc' = "dispatch"
           /\ UNCHANGED <<result, context, artifact>>
        \/ /\ FileExists(query_result_path)
           /\ \E html \in {"<div>chart</div>"} :
                /\ phase_result' = ReasoningStep("VisualizationAgent", "visualization_generated",
                     [input_data_path |-> query_result_path,
                      visualization_html |-> html,
                      visualization_summary |-> "summary",
                      executed_code |-> "fig = px.bar(df)"])
                /\ artifact' = html
           /\ context' = ContextLogStep(context, "VisualizationAgent", "visualization_generated")
           /\ pc' = "dispatch"
           /\ UNCHANGED result
  /\ UNCHANGED <<coreVars, libVars, reasoner_output>>
  /\ UNCHANGED <<workflow_state, conn, stack, output_file, disk, clock, calls,
                 resubmitted, answered>>

\* A VISUALIZE dispatch that advances whatever the handler returned.
DispatchVisualizeUnchecked ==
  /\ pc = "dispatch"
  /\ workflow_state = "VISUALIZE"
  /\ workflow_state' = StateAfterVisualize
  /\ context' = ContextLogStep(
       ContextUpdate(context, [workflow_state |-> StateAfterVisualize,
                               output_image_path |-> DictGet(phase_result.details, "output_image_path", None)]),
       "CoordinatorAgent", "state_transition")
  /\ stack' = Append(stack, workflow_state)
  /\ pc' = "enter"
  /\ UNCHANGED <<coreVars, libVars, reasoner_output>>
  /\ UNCHANGED <<conn, phase_result, result, output_file, disk, clock, n, calls,
                 resubmitted, answered, artifact>>

\* Lines 152-171.
DispatchVisualize ==
  /\ pc = "dispatch"
  /\ workflow_state = "VISUALIZE"
  /\ IF phase_result.operation = "visualization_generated"
     THEN LET visualization_path == DictGet(phase_result.details, "output_image_path", None)
          IN /\ workflow_state' = StateAfterVisualize
             /\ context' = ContextLogStep(
                  ContextUpdate(context, [workflow_state |-> StateAfterVisualize,
                                          output_image_path |-> visualization_path]),
                  "CoordinatorAgent", "state_transition")
             /\ stack' = Append(stack, workflow_state)
             /\ pc' = "enter"
             /\ UNCHANGED result
     ELSE /\ result' = phase_result
          /\ pc' = "unwind"
          /\ UNCHANGED <<workflow_state, context, stack>>
  /\ UNCHANGED <<coreVars, libVars, reasoner_output>>
  /\ UNCHANGED <<conn, phase_result, output_file, disk, clock, n, calls,
                 resubmitted, answered, artifact>>

\* _complete_phase (lines 220-257): the final report.  The sample is the
\* first rows of the result file, at most SampleRows of them.
CompleteReport(c) ==
  LET result_path == ContextGet(c, "query_result_path", None)
      row_count == ContextGet(c, "query_result_row_count", 0)
      sample == IF FileExists(result_path)
                THEN [i \in 1..Min(SampleRows, disk[result_path]) |-> i]
                ELSE <<>>
      visualization_path == ContextGet(c, "output_image_path", None)
  IN ReasoningStep("Coordinator", "complete",
       [message |-> "Workflow completed successfully.",
        output_file |-> result_path,
        row_count |-> row_count,
        visualization_path |-> visualization_path,
        final_data_sample |-> sample])

CompletePhase ==
  /\ pc = "handler"
  /\ workflow_state = "COMPLETE"
  /\ n' = [n EXCEPT !.complete = @ + 1]
  /\ phase_result' = CompleteReport(context)
  /\ pc' = "dispatch"
  /\ UNCHANGED <<coreVars, libVars, reasoner_output>>
  /\ UNCHANGED <<workflow_state, context, conn, stack, result, output_file, disk,
                 clock, calls, resubmitted, answered, artifact>>

\* Lines 176-182.
DispatchComplete ==
  /\ pc = "dispatch"
  /\ workflow_state = "COMPLETE"
  /\ result' = IF phase_result.operation \in {"complete", "error"}
               THEN phase_result
               ELSE ReasoningStep("Coordinator", "error",
                                  [error |-> "Unexpected result from COMPLETE phase"])
  /\ pc' = "unwind"
  /\ UNCHANGED <<coreVars, libVars, reasoner_output>>
  /\ UNCHANGED <<workflow_state, context, conn, stack, phase_result, output_file,
                 disk, clock, n, calls, resubmitted, answered, artifact>>

\* `return await self.execute()`: the value passes up through the calling
\* frame; the EXTRACT frame called from inside its try block, so its
\* finally block runs now.
Unwind ==
  /\ pc = "unwind"
  /\ stack # <<>>
  /\ stack' = SubSeq(stack, 1, Len(stack) - 1)
  /\ pc' = IF stack[Len(stack)] = "EXTRACT" THEN "finally" ELSE "unwind"
  /\ UNCHANGED <<coreVars, libVars, reasoner_output>>
  /\ UNCHANGED <<workflow_state, context, conn, phase_result, result, output_file,
                 disk, clock, n, calls, resubmitted, answered, artifact>>

\* The top-level execute() returns to the driver.
Return ==
  /\ pc = "unwind"
  /\ stack = <<>>
  /\ pc' = "idle"
  /\ entered' = [entered EXCEPT !.built = FALSE]
  /\ UNCHANGED <<coreVars, heapVars, compilerVars, validatorVars, getVars, apiVars,
                 pairVars, reasoner_output>>
  /\ UNCHANGED <<workflow_state, context, conn, stack, phase_result, result,
                 output_file, disk, clock, n, calls, resubmitted, answered, artifact>>

NextCoord ==
  \/ Call \/ Resubmit \/ Rebuild \/ Enter
  \/ AnalyzePhase \/ DispatchAnalyze
  \/ ExtractPhase \/ DispatchExtract \/ Connect \/ ExecuteQuery \/ Finally
  \/ VisualizePhase \/ DispatchVisualize
  \/ CompletePhase \/ DispatchComplete
  \/ Unwind \/ Return

(***************************************************************************)
(* The /analyze endpoint (api/main.py analyze_query): one Context, one     *)
(* connection manager and one CoordinatorAgent per request.                *)
(***************************************************************************)
NoResponse == [status |-> "none"]

\* An /analyze that reports what the coordinator returned.
AnalyzeResponseTagged(res, c) ==
  CASE res.operation = "error" ->
         [status |-> "error", clarifications |-> None, sql_query |-> None,
          error_message |-> DictGet(res.details, "error", None)]
    [] res.operation = "clarification_needed" ->
         [status |-> "clarification_needed",
          clarifications |-> DictGet(res.details, "ambiguities", <<>>),
          sql_query |-> None, error_message |-> None]
    [] OTHER ->
         [status |-> "success", clarifications |-> None,
          sql_query |-> DictGet(ContextSnapshot(c), "sql_query", None),
          error_message |-> None]

\* Lines 275-343: what the handler answers after coordinator.execute().
AnalyzeResponse(res, c) ==
  IF res.operation = "clarification_needed"
  THEN [status |-> "clarification_needed",
        clarifications |-> DictGet(res.details, "ambiguities", <<>>),
        sql_query |-> None,
        error_message |-> None]
  ELSE [status |-> "success",
        clarifications |-> None,
        sql_query |-> DictGet(ContextSnapshot(c), "sql_query", None),
        error_message |-> None]

RequestClarifications ==
  {EmptyDict} \cup {[q \in qs |-> Suggestion] : qs \in (SUBSET Questions) \ {{}}}

\* Lines 237-274: the project or its connection may be missing and
\* get_connection may raise (the `except` of lines 344-358 answers);
\* otherwise the manager arrives connected and the coordinator starts.
ApiRequest ==
  /\ pc = "idle"
  /\ calls < MaxRequests
  /\ calls' = calls + 1
  /\ result' = NoResult
  /\ \/ /\ \E detail \in {"Project not found", "Failed to get connection manager"} :
             response' = [status |-> "error", clarifications |-> None,
                          sql_query |-> None, error_message |-> detail]
        /\ UNCHANGED <<workflow_state, context, conn, pc, stack, phase_result, n, answered>>
     \/ \E clarifications \in RequestClarifications :
          LET made == ContextNew(TheQuery, TheProject)
              c == IF clarifications # EmptyDict
                   THEN ContextUpdate(made, [clarifications |-> clarifications])
                   ELSE made
          IN /\ context' = c
             /\ workflow_state' = ContextGet(c, "workflow_state", "ANALYZE")
             /\ conn' = TRUE
             /\ answered' = DOMAIN clarifications
             /\ response' = NoResponse
             /\ pc' = "enter"
             /\ stack' = <<>>
             /\ phase_result' = NoResult
             /\ n' = ZeroCalls
  /\ entered' = [entered EXCEPT !.workflow_state = "ANALYZE", !.version = context'.version]
  /\ UNCHANGED <<coreVars, heapVars, compilerVars, validatorVars, getVars, pairVars>>
  /\ UNCHANGED <<output_file, disk, clock, resubmitted, artifact, reasoner_output>>

ApiRespond ==
  /\ pc = "unwind"
  /\ stack = <<>>
  /\ response' = AnalyzeResponse(result, context)
  /\ pc' = "idle"
  /\ UNCHANGED <<coreVars, heapVars, compilerVars, validatorVars, getVars, ghostVars, pairVars>>
  /\ UNCHANGED <<workflow_state, context, conn, stack, phase_result, result,
                 output_file, disk, clock, n, calls, resubmitted, answered, artifact,
                 reasoner_output>>

NextApi ==
  \/ ApiRequest \/ ApiRespond \/ Enter
  \/ AnalyzePhase \/ DispatchAnalyze
  \/ ExtractPhase \/ DispatchExtract \/ Connect \/ ExecuteQuery \/ Finally
  \/ VisualizePhase \/ DispatchVisualize
  \/ CompletePhase \/ DispatchComplete
  \/ Unwind


(***************************************************************************)
(* core.CoordinatorAgent (core.py): the coordinator with validation gates  *)
(* and a retry loop.                                                       *)
(***************************************************************************)
CoreStates == <<"ANALYZE", "EXTRACT", "TRANSFORM", "VISUALIZE">>

InitCore ==
  /\ core_state = "ANALYZE"
  /\ core_context = ContextNew(TheQuery, TheProject)
  /\ core_pc = "idle"
  /\ core_attempt = 0
  /\ core_raised = <<>>
  /\ core_result = NoResult
  /\ core_calls = 0

\* An _advance_state that leaves EXTRACT out.
AdvanceStateSkipping(state) ==
  IF state = "ANALYZE" THEN "TRANSFORM" ELSE state

\* _advance_state.
AdvanceState(state) ==
  LET current_idx == CHOOSE i \in DOMAIN CoreStates : CoreStates[i] = state
  IN IF current_idx < Len(CoreStates) THEN CoreStates[current_idx + 1] ELSE state

\* Lines 83-89: the outer handler of execute.
CoreFailed(message, state) ==
  ReasoningStep("Coordinator", "error_handling", [error |-> message, state |-> state])

\* Lines 49-54.
CoreCall ==
  /\ UNCHANGED <<coordVars, libVars>>
  /\ core_pc = "idle"
  /\ core_calls < MaxCoreCalls
  /\ core_calls' = core_calls + 1
  /\ core_context' = ContextLogStep(core_context, "CoordinatorAgent", "workflow_init")
  /\ core_pc' = "gate"
  /\ core_attempt' = 0
  /\ core_raised' = <<>>
  /\ UNCHANGED <<core_state, core_result>>

\* Lines 59-66 with the validators (lines 125-138).  The validators read
\* the Context by attribute: a key that was never stored raises
\* AttributeError, which the outer handler turns into a result.
CoreGate ==
  /\ UNCHANGED <<coordVars, libVars>>
  /\ core_pc = "gate"
  /\ LET key == CASE core_state = "EXTRACT" -> "metadata"
                  [] core_state = "TRANSFORM" -> "raw_data"
                  [] core_state = "VISUALIZE" -> "transformed_data"
                  [] OTHER -> None
         reason == CASE core_state = "EXTRACT" -> "Missing metadata"
                     [] core_state = "TRANSFORM" -> "Missing raw data"
                     [] OTHER -> "Missing transformed data"
         invalid == IF core_state = "EXTRACT"
                    THEN DOMAIN core_context.data[key] = {}
                    ELSE DOMAIN core_context.data[key] = {"none"}
     IN IF key = None
        THEN core_pc' = "attempt" /\ UNCHANGED core_result
        ELSE IF ~HasAttr(core_context, key)
        THEN /\ core_result' = CoreFailed("object has no attribute", core_state)
             /\ core_pc' = "idle"
        ELSE IF invalid
        THEN /\ core_result' = ReasoningStep("Coordinator", "validation_failed",
                                             [valid |-> FALSE, reason |-> reason])
             /\ core_pc' = "idle"
        ELSE core_pc' = "attempt" /\ UNCHANGED core_result
  /\ UNCHANGED <<core_state, core_context, core_attempt, core_raised, core_calls>>

\* Lines 77-80 and 83-89: an attempt raised.
CoreAttemptRaised(message) ==
  /\ core_raised' = Append(core_raised, TRUE)
  /\ IF core_attempt = max_retries - 1
     THEN /\ core_result' = CoreFailed(message, core_state)
          /\ core_pc' = "idle"
          /\ UNCHANGED core_attempt
     ELSE /\ core_attempt' = core_attempt + 1
          /\ UNCHANGED <<core_result, core_pc>>
  /\ UNCHANGED <<core_state, core_context>>

\* Lines 71-76: an attempt returned `r`, the handler having left Context c.
CoreAttemptReturned(r, c) ==
  /\ core_raised' = Append(core_raised, FALSE)
  /\ core_context' = c
  /\ core_state' = IF r.operation = "clarification_needed" THEN "ANALYZE"
                   ELSE IF r.operation # "error" THEN AdvanceState(core_state)
                   ELSE core_state
  /\ core_result' = r
  /\ core_pc' = "idle"
  /\ UNCHANGED core_attempt

PyNone == [none |-> TRUE]

\* _analyze_phase (lines 97-103).
CoreAnalyze ==
  /\ UNCHANGED <<coordVars, libVars>>
  /\ core_pc = "attempt"
  /\ core_state = "ANALYZE"
  /\ \/ CoreAttemptRaised("GEMINI_API_KEY not set")
     \/ LET r == ReasoningStep("MetadataAgent", "error", [error |-> "analysis failed"])
        IN CoreAttemptReturned(r, ContextUpdate(core_context, [metadata |-> EmptyDict]))
     \/ \E plan \in Plans, ambiguities \in AmbiguityLists :
          LET r == MetadataExecute(core_context,
                     [plan EXCEPT !.ambiguities = ambiguities], EmptyDict)
          IN CoreAttemptReturned(r, ContextUpdate(core_context, [metadata |-> r.details]))
  /\ UNCHANGED core_calls

\* _extract_phase (lines 105-110).
CoreExtract ==
  /\ UNCHANGED <<coordVars, libVars>>
  /\ core_pc = "attempt"
  /\ core_state = "EXTRACT"
  /\ LET r == ExtractorExecute(core_context)
         logged == IF r.operation = "sql_generation"
                   THEN ContextLogStep(core_context, "ExtractorAgent", "sql_generation")
                   ELSE core_context
     IN CoreAttemptReturned(r, ContextUpdate(logged,
          [raw_data |-> IF r.operation # "error" THEN r.details ELSE PyNone]))
  /\ UNCHANGED core_calls

\* _transform_phase (lines 112-114) returns None, so `result.operation`
\* raises AttributeError inside the retry loop.
CoreTransform ==
  /\ UNCHANGED <<coordVars, libVars>>
  /\ core_pc = "attempt"
  /\ core_state = "TRANSFORM"
  /\ CoreAttemptRaised("'NoneType' object has no attribute 'operation'")
  /\ UNCHANGED core_calls

NextCore ==
  \/ CoreCall \/ CoreGate \/ CoreAnalyze \/ CoreExtract \/ CoreTransform

(***************************************************************************)
(* ContextProtocol on the Python heap.  The Coordinator model above treats *)
(* a Context as a value; here its dicts and lists are objects with an      *)
(* identity, so that sharing between instances can be observed.            *)
(*   heap[a]   = [kind |-> "dict", items |-> key -> value]                 *)
(*             | [kind |-> "list", items |-> <<entries>>]                  *)
(*   value     = [ref |-> a] (a dict or list) | [val |-> int] | [str |-> s]*)
(*   instance  = [query, project_id, version, data |-> a]                  *)
(* Nested objects hold plain values only.                                  *)
(***************************************************************************)
IsRef(v) == "ref" \in DOMAIN v

RefsOf(h, a) ==
  {h[a].items[k].ref : k \in {x \in DOMAIN h[a].items : IsRef(h[a].items[x])}}

\* Every object reachable from instance c, its _data dict included.
Reachable(h, c) == {c.data} \cup RefsOf(h, c.data)

RECURSIVE SetToSeq(_)
SetToSeq(S) ==
  IF S = {} THEN <<>>
  ELSE LET least == CHOOSE x \in S : \A y \in S : x <= y
       IN <<least>> \o SetToSeq(S \ {least})

IndexOf(seq, x) == CHOOSE i \in DOMAIN seq : seq[i] = x

\* __post_init__ (lines 16-25) on a fresh default _data.
PostInit(h, q, p, v) ==
  LET base == Len(h)
      data == [kind |-> "dict",
               items |-> [metadata |-> [ref |-> base + 2],
                          reasoning_steps |-> [ref |-> base + 3],
                          clarifications |-> [ref |-> base + 4],
                          query |-> [str |-> q],
                          project_id |-> [str |-> p],
                          version |-> [val |-> v]]]
  IN [heap |-> h \o <<data,
                      [kind |-> "dict", items |-> EmptyDict],
                      [kind |-> "list", items |-> <<>>],
                      [kind |-> "dict", items |-> EmptyDict]>>,
      ctx |-> [query |-> q, project_id |-> p, version |-> v, data |-> base + 1]]

\* copy.deepcopy(self._data): a new dict and a new copy of every object it
\* refers to; two keys that shared an object share its copy (the memo).
DeepCopy(h, a) ==
  LET olds == SetToSeq(RefsOf(h, a))
      base == Len(h)
      moved(v) == IF IsRef(v) THEN [ref |-> base + IndexOf(olds, v.ref)] ELSE v
      copies == [i \in 1..Len(olds) |-> h[olds[i]]]
      top == [kind |-> "dict", items |-> [k \in DOMAIN h[a].items |-> moved(h[a].items[k])]]
  IN [heap |-> h \o copies \o <<top>>, addr |-> base + Len(olds) + 1]

\* An update that merges into the caller's own _data.
HeapUpdateInPlace(h, c, updates) ==
  LET new_version == c.version + 1
      merged == [DictUpdate(h[c.data].items, updates) EXCEPT
                   !["version"] = [val |-> new_version]]
  IN [heap |-> [h EXCEPT ![c.data].items = merged],
      ctx |-> [query |-> IF "query" \in DOMAIN updates THEN updates.query.str ELSE c.query,
               project_id |-> IF "project_id" \in DOMAIN updates
                              THEN updates.project_id.str ELSE c.project_id,
               version |-> new_version,
               data |-> c.data]]

\* An update that copies only the top-level dict (copy.copy).
HeapUpdateShallow(h, c, updates) ==
  LET new_version == c.version + 1
      new_data == [DictUpdate(h[c.data].items, updates) EXCEPT
                     !["version"] = [val |-> new_version]]
  IN [heap |-> Append(h, [kind |-> "dict", items |-> new_data]),
      ctx |-> [query |-> IF "query" \in DOMAIN updates THEN updates.query.str ELSE c.query,
               project_id |-> IF "project_id" \in DOMAIN updates
                              THEN updates.project_id.str ELSE c.project_id,
               version |-> new_version,
               data |-> Len(h) + 1]]

\* update (lines 39-76).  The instance built at lines 67-72 gets a default
\* _data that line 74 replaces at once; those objects are never reachable
\* and are left out of the heap.
HeapUpdate(h, c, updates) ==
  LET copy == DeepCopy(h, c.data)
      new_version == c.version + 1
      new_data == [DictUpdate(copy.heap[copy.addr].items, updates) EXCEPT
                     !["version"] = [val |-> new_version]]
  IN [heap |-> [copy.heap EXCEPT ![copy.addr].items = new_data],
      ctx |-> [query |-> IF "query" \in DOMAIN updates THEN updates.query.str ELSE c.query,
               project_id |-> IF "project_id" \in DOMAIN updates
                              THEN updates.project_id.str ELSE c.project_id,
               version |-> new_version,
               data |-> copy.addr]]

\* A log_step that starts a new list on every call.
HeapLogStepRestarting(h, c, agent, action) ==
  [h EXCEPT ![c.data].items =
     DictUpdate(h[c.data].items, [reasoning_steps |-> [ref |-> Len(h) + 1]])]
  \o <<[kind |-> "list", items |-> <<[agent |-> agent, action |-> action]>>]>>

\* log_step (lines 79-89): an in-place append; a missing or non-list
\* reasoning_steps is first replaced by a new list.
HeapLogStep(h, c, agent, action) ==
  LET d == h[c.data].items
      entry == [agent |-> agent, action |-> action]
      is_list == /\ "reasoning_steps" \in DOMAIN d
                 /\ IsRef(d["reasoning_steps"])
                 /\ h[d["reasoning_steps"].ref].kind = "list"
  IN IF is_list
     THEN [h EXCEPT ![d["reasoning_steps"].ref].items = Append(@, entry)]
     ELSE [h EXCEPT ![c.data].items =
             DictUpdate(d, [reasoning_steps |-> [ref |-> Len(h) + 1]])]
          \o <<[kind |-> "list", items |-> <<entry>>]>>

\* snapshot (lines 91-94): a deep copy of _data, i.e. its value.
HeapSnapshot(h, c) ==
  [k \in DOMAIN h[c.data].items |->
     IF IsRef(h[c.data].items[k]) THEN h[h[c.data].items[k].ref] ELSE h[c.data].items[k]]

\* get (lines 28-37) of a key held in _data: the stored object itself.
HeapGet(h, c, key) == h[c.data].items[key]

Snapshots == [i \in DOMAIN ctxs |-> HeapSnapshot(heap, ctxs[i])]

NoOp == [op |-> "none", target |-> 0, created |-> 0, before |-> <<>>,
         keys |-> {}, version |-> 0, done |-> 0]

InitHeap ==
  LET made == PostInit(<<>>, TheQuery, TheProject, 0)
  IN /\ heap = made.heap
     /\ ctxs = <<made.ctx>>
     /\ origin = <<[parent |-> 0, shares |-> FALSE]>>
     /\ last_op = NoOp

\* The change maps a holder of Contexts passes to update: plain values, a
\* `version`, or an object it got from some Context with get().
ChangeMaps ==
  {[note |-> [val |-> 1]], [version |-> [val |-> 7]]}
  \cup {[metadata |-> HeapGet(heap, ctxs[j], "metadata")] : j \in DOMAIN ctxs}
  \cup {[reasoning_steps |-> HeapGet(heap, ctxs[j], "reasoning_steps")] : j \in DOMAIN ctxs}

Derive(i, h, m) ==
  LET made == HeapUpdate(h, ctxs[i], m)
      held == Reachable(h, ctxs[i])
  IN /\ Len(ctxs) < MaxCtx
     /\ heap' = made.heap
     /\ ctxs' = Append(ctxs, made.ctx)
     /\ origin' = Append(origin,
          [parent |-> i,
           shares |-> \E k \in DOMAIN m : IsRef(m[k]) /\ m[k].ref \in held])
     /\ last_op' = [op |-> "update", target |-> i, created |-> Len(ctxs) + 1,
                    before |-> Snapshots, keys |-> DOMAIN m,
                    version |-> ctxs[i].version, done |-> last_op.done]

\* c2 = c1.update(m)
CtxUpdate ==
  /\ \E i \in DOMAIN ctxs : \E m \in ChangeMaps : Derive(i, heap, m)
  /\ UNCHANGED <<coordVars, coreVars, compilerVars, validatorVars, clientVars>>

\* The driver (test_metadata_agent.py line 88): a dict made for the call.
CtxUpdateFresh ==
  /\ \E i \in DOMAIN ctxs :
       Derive(i, Append(heap, [kind |-> "dict", items |-> ("Q1" :> [str |-> Suggestion])]),
              [clarifications |-> [ref |-> Len(heap) + 1]])
  /\ UNCHANGED <<coordVars, coreVars, compilerVars, validatorVars, clientVars>>

\* c.log_step(...)
CtxLogStep ==
  /\ \E i \in DOMAIN ctxs :
       /\ last_op.done < MaxInPlace
       /\ heap' = HeapLogStep(heap, ctxs[i], "Coordinator", "state_transition")
       /\ last_op' = [op |-> "log_step", target |-> i, created |-> 0,
                      before |-> Snapshots, keys |-> {}, version |-> ctxs[i].version,
                      done |-> last_op.done + 1]
  /\ UNCHANGED <<ctxs, origin>>
  /\ UNCHANGED <<coordVars, coreVars, compilerVars, validatorVars, clientVars>>

\* c.get(key)[k] = v: an in-place change of a Context's metadata or
\* clarifications by whoever holds the object.
CtxSetItem ==
  /\ \E i \in DOMAIN ctxs : \E key \in {"metadata", "clarifications"} :
       LET a == HeapGet(heap, ctxs[i], key).ref
       IN /\ last_op.done < MaxInPlace
          /\ "touched" \notin DOMAIN heap[a].items
          /\ heap' = [heap EXCEPT ![a].items = DictUpdate(@, [touched |-> [val |-> i]])]
          /\ last_op' = [op |-> "set_item", target |-> i, created |-> 0,
                         before |-> Snapshots, keys |-> {key},
                         version |-> ctxs[i].version, done |-> last_op.done + 1]
  /\ UNCHANGED <<ctxs, origin>>
  /\ UNCHANGED <<coordVars, coreVars, compilerVars, validatorVars, clientVars>>

NextContext == CtxUpdate \/ CtxUpdateFresh \/ CtxLogStep \/ CtxSetItem

(***************************************************************************)
(* ExtractorAgent on its own: a plan as the Reasoner may deliver it, and   *)
(* execute() called on Contexts that hold it at different versions.        *)
(***************************************************************************)
JoinTU == [type |-> "left", left_table |-> "t", left_column |-> "id",
           right_table |-> "u", right_column |-> "t_id"]
JoinUV == [type |-> "inner", left_table |-> "u", left_column |-> "id",
           right_table |-> "v", right_column |-> "u_id"]
JoinNoType == [left_table |-> "x", left_column |-> "id",
               right_table |-> "u", right_column |-> "x_id"]
JoinNoLeft == [type |-> "left", right_table |-> "u", right_column |-> "t_id"]

SelectOptions ==
  {<<>>,
   <<[expression |-> "t.a", alias |-> "t.a"], [expression |-> "COUNT(*)", alias |-> "cnt"]>>,
   <<[expression |-> "t.b", alias |-> "b"]>>,
   <<[expression |-> "t.a"]>>,
   <<[expression |-> "7", alias |-> "seven", not_str |-> TRUE],
     [expression |-> "t.a || t.b", alias |-> "ab"]>>}

GroupingOptions ==
  {[group_by_columns |-> <<>>, aggregations |-> <<>>],
   [group_by_columns |-> <<"t.a">>,
    aggregations |-> <<[expression |-> "COUNT(*)", alias |-> "cnt"]>>],
   [group_by_columns |-> <<"t.a", "t.c">>, aggregations |-> <<>>]}

TableOptions == {<<>>, <<"t">>}

JoinOptions == {<<>>, <<JoinTU>>, <<JoinNoType, JoinTU, JoinUV>>, <<JoinNoLeft>>}

FilterOptions ==
  {<<>>, <<[column |-> "t.a", condition |-> "t.a > 1"]>>, <<[column |-> "t.a"]>>}

HavingOptions == {<<>>, <<[condition |-> "COUNT(*) > 1"]>>, <<[condition |-> ""]>>}

OrderOptions ==
  {[form |-> "none"],
   [form |-> "dict", spec |-> [column |-> "cnt", direction |-> "desc"]],
   [form |-> "list", specs |-> <<[direction |-> "asc"]>>]}

LimitOptions ==
  {[kind |-> "none"], [kind |-> "int", val |-> 5], [kind |-> "int", val |-> 0],
   [kind |-> "float", tenths |-> 25], [kind |-> "float", tenths |-> 0 - 5],
   [kind |-> "inf", sign |-> 0 - 1], [kind |-> "str", val |-> 5], [kind |-> "text"]}

PlanInputs ==
  {[initial_select_columns |-> s, initial_tables |-> t, initial_joins |-> j,
    initial_filters |-> f, group_by_columns |-> g.group_by_columns,
    aggregations |-> g.aggregations, having_conditions |-> h,
    order_by_spec |-> o, limit_count |-> l] :
     s \in SelectOptions, t \in TableOptions, j \in JoinOptions, f \in FilterOptions,
     g \in GroupingOptions, h \in HavingOptions, o \in OrderOptions, l \in LimitOptions}

\* A Context at version v that holds the plan and has logged v steps.
RECURSIVE Logged(_, _)
Logged(c, k) ==
  IF k = 0 THEN c
  ELSE ContextLogStep(Logged(c, k - 1), "Coordinator", "state_transition")

ContextHolding(p, v) ==
  LET c == ContextUpdate(ContextNew(TheQuery, TheProject), [metadata |-> p])
  IN Logged([c EXCEPT !.version = v, !.data.version = v], v)

NotInvoked == [ok |-> FALSE, error |-> "not invoked"]

InitCompiler ==
  /\ plan_in \in PlanInputs
  /\ compilations = <<>>

\* ExtractorAgent(context).execute(); `out` is what the call of
\* _generate_aggregated_sql inside it came to, kept for the properties.
Compile ==
  /\ Len(compilations) < MaxCompiles
  /\ \E v \in 0..MaxVersion :
       LET c == ContextHolding(plan_in, v)
       IN compilations' = Append(compilations,
            [version |-> v,
             step |-> ExtractorExecute(c),
             out |-> IF CompilerInvoked(c)
                     THEN GenerateAggregatedSql(ContextGet(c, "metadata", EmptyDict))
                     ELSE NotInvoked])
  /\ UNCHANGED plan_in
  /\ UNCHANGED <<coordVars, coreVars, heapVars, validatorVars, clientVars>>

NextCompiler == Compile

(***************************************************************************)
(* MetadataAgent on its own: what the Reasoner answered, the schema of the *)
(* project, and _validate_result applied to its own result again.          *)
(***************************************************************************)
MetaCol(name, type) == [name |-> <<name>>, type |-> type]

Schemas ==
  {EmptyDict,
   [tables |-> <<"t", "u">>,
    columns |-> ("t" :> <<MetaCol("id", "bigint"), MetaCol("x", "varchar")>>
                 @@ "u" :> <<MetaCol("t_id", "bigint")>>)],
   [tables |-> <<"t">>,
    columns |-> ("t" :> <<MetaCol("x", "varchar")>> @@ "w" :> <<MetaCol("k", "bigint")>>)],
   [columns |-> ("t" :> <<MetaCol("id", "bigint")>>)]}

RawTables == {<<>>, <<"t", "u">>, <<"zz", "t">>}

RawColumns ==
  {EmptyDict,
   ("t" :> <<MetaCol("x", "llm"), MetaCol("y", "llm")>>),
   ("t" :> <<MetaCol("id", "llm")>> @@ "zz" :> <<MetaCol("q", "llm")>>),
   ("t" :> <<[type |-> "llm"]>>)}

RawJoins ==
  {<<>>,
   <<[left_table |-> "t", left_column |-> [segs |-> <<"t", "id">>],
      right_table |-> "u", right_column |-> [segs |-> <<"t_id">>], type |-> "INNER"]>>,
   <<[left_table |-> "t", left_column |-> [segs |-> <<"id">>],
      right_table |-> "zz", right_column |-> [segs |-> <<"zz", "t_id">>]],
     [left_table |-> "t"], [py |-> "str"]>>,
   <<[left_table |-> "t", left_column |-> [int |-> 5],
      right_table |-> "u", right_column |-> [segs |-> <<"t_id">>]]>>,
   <<[left_table |-> "u", left_column |-> [segs |-> <<"u", "t_id">>],
      right_table |-> "t", right_column |-> [segs |-> <<"t", "id">>]],
     [left_table |-> "t", left_column |-> [segs |-> <<"x">>],
      right_table |-> "u", right_column |-> [segs |-> <<"nope">>], type |-> "INNER"]>>}

RawFilters ==
  {<<>>,
   <<[column |-> <<"t", "x">>, condition |-> "t.x = 'a'"], [column |-> <<"t", "nope">>],
     [condition |-> "1 = 1"], [py |-> "str"]>>}

RawDrillDowns ==
  {[levels |-> <<>>],
   [levels |-> <<[columns |-> <<[segs |-> <<"t", "x">>], [expr |-> "t.a || t.b AS ab"],
                                [segs |-> <<"w", "k">>], [segs |-> <<"x">>]>>],
                  [columns |-> <<[segs |-> <<"t", "id">>]>>]>>],
   EmptyDict,
   [levels |-> <<[name |-> "by city"]>>],
   [levels |-> <<[columns |-> <<[int |-> 5]>>]>>]}

\* Every subset of the keys may be missing from the Reasoner's answer.
RawPlans ==
  {[k \in keys |->
      CASE k = "tables" -> t [] k = "columns" -> c [] k = "joins" -> j
        [] k = "filters" -> f [] k = "drill_down" -> d [] OTHER -> <<>>] :
     keys \in {ExpectedKeys, ExpectedKeys \ {"drill_down", "columns"}, {"tables", "joins"}},
     t \in RawTables, c \in RawColumns, j \in RawJoins, f \in RawFilters,
     d \in RawDrillDowns}

InitValidator ==
  /\ raw_plan \in RawPlans
  /\ schema \in Schemas
  /\ passes = <<>>
  /\ analysis = NoResult

\* _validate_result on the Reasoner's answer, then on its own result.
ValidatePass ==
  /\ Len(passes) < MaxPasses
  /\ passes # <<>> => passes[Len(passes)].exc = ""
  /\ passes' = Append(passes,
       ValidateResult(IF passes = <<>> THEN raw_plan ELSE passes[Len(passes)].plan, schema))
  /\ UNCHANGED <<raw_plan, schema, analysis>>
  /\ UNCHANGED <<coordVars, coreVars, heapVars, compilerVars, clientVars>>

\* MetadataAgent(context).execute() with this answer of the Reasoner.
AnalyzeQuery ==
  /\ analysis = NoResult
  /\ analysis' = MetadataExecute(ContextNew(TheQuery, TheProject), raw_plan, schema)
  /\ UNCHANGED <<raw_plan, schema, passes>>
  /\ UNCHANGED <<coordVars, coreVars, heapVars, compilerVars, clientVars>>

NextValidator == ValidatePass \/ AnalyzeQuery

(***************************************************************************)
(* Specifications.                                                         *)
(***************************************************************************)
\* What a specification leaves idle.
(***************************************************************************)
(* Callers of ContextProtocol.get: a Context as the workflow leaves it, a  *)
(* key and a default.                                                      *)
(***************************************************************************)
NotCalled == [called |-> FALSE]

Held ==
  LET fresh == ContextNew(TheQuery, TheProject)
      analysed == ContextLogStep(
                    ContextUpdate(fresh, [metadata |-> [tables |-> <<"t">>],
                                          workflow_state |-> "EXTRACT"]),
                    "CoordinatorAgent", "state_transition")
  IN {fresh, analysed,
      ContextUpdate(analysed, [workflow_state |-> "VISUALIZE", sql_query |-> "SELECT 1",
                               query_result_row_count |-> 0]),
      ContextUpdate(fresh, [clarifications |-> [Q1 |-> Suggestion], query |-> "again"]),
      ContextUpdate(fresh, [snapshot |-> "stored"])}

GetKeys ==
  {"query", "project_id", "version", "metadata", "reasoning_steps", "clarifications",
   "workflow_state", "sql_query", "query_result_row_count", "raw_data",
   "snapshot", "update", "get", "log_step", "_data"}

GetDefaults == {None, "ANALYZE"}

InitGet ==
  /\ probe \in [c : Held, key : GetKeys, default : GetDefaults]
  /\ got = NotCalled

\* value = probe.c.get(probe.key, probe.default)
GetCall ==
  /\ got = NotCalled
  /\ got' = [called |-> TRUE, value |-> ContextGet(probe.c, probe.key, probe.default)]
  /\ UNCHANGED probe
  /\ UNCHANGED <<coordVars, coreVars, heapVars, compilerVars, validatorVars, apiVars,
                 ghostVars, pairVars>>

NextGet == GetCall

(***************************************************************************)
(* Two workflows at once (two /analyze requests, or two driver runs): each *)
(* coordinator has its own Context and connection manager; they share the  *)
(* clock and the storage/results directory.  Only the steps that touch the *)
(* shared directory are kept (coordinator.py lines 90-126, 152-167 and     *)
(* 220-257).                                                               *)
(***************************************************************************)
Workflows == {1, 2}
Projects == {TheProject, "p2"}
Unwritten == 0
ResultPaths == {OutputFile(p, t) : p \in Projects, t \in Timestamps}

InitPair ==
  /\ jobs \in [Workflows -> {[project_id |-> p, pc |-> "extract", path |-> None, seen |-> {}] :
                               p \in Projects}]
  /\ files = [f \in ResultPaths |-> Unwritten]
  /\ now = 1

\* time.time() moves on.
Tick ==
  /\ now < MaxTime
  /\ now' = now + 1
  /\ UNCHANGED <<jobs, files>>
  /\ UNCHANGED <<coordVars, coreVars, heapVars, compilerVars, validatorVars, getVars,
                 apiVars, ghostVars>>

\* Lines 91-100: the result path of this workflow.
StampPath ==
  /\ \E i \in Workflows :
       /\ jobs[i].pc = "extract"
       /\ jobs' = [jobs EXCEPT ![i].path = OutputFile(jobs[i].project_id, now),
                               ![i].pc = "query"]
  /\ UNCHANGED <<files, now>>
  /\ UNCHANGED <<coordVars, coreVars, heapVars, compilerVars, validatorVars, getVars,
                 apiVars, ghostVars>>

\* execute_query (connection_manager.py lines 248-263) opens the path for
\* writing and stores the rows of this workflow's query there.
WriteRows ==
  /\ \E i \in Workflows :
       /\ jobs[i].pc = "query"
       /\ files' = [files EXCEPT ![jobs[i].path] = i]
       /\ jobs' = [jobs EXCEPT ![i].pc = "visualize"]
  /\ UNCHANGED now
  /\ UNCHANGED <<coordVars, coreVars, heapVars, compilerVars, validatorVars, getVars,
                 apiVars, ghostVars>>

\* VisualizationAgent.execute and _complete_phase read query_result_path.
ReadRows ==
  /\ \E i \in Workflows :
       /\ jobs[i].pc \in {"visualize", "complete"}
       /\ jobs' = [jobs EXCEPT ![i].seen = @ \cup {files[jobs[i].path]},
                               ![i].pc = IF @ = "visualize" THEN "complete" ELSE "done"]
  /\ UNCHANGED <<files, now>>
  /\ UNCHANGED <<coordVars, coreVars, heapVars, compilerVars, validatorVars, getVars,
                 apiVars, ghostVars>>

NextPair == Tick \/ StampPath \/ WriteRows \/ ReadRows

IdleHeap == heap = <<>> /\ ctxs = <<>> /\ origin = <<>> /\ last_op = NoOp
IdleCompiler == plan_in = EmptyDict /\ compilations = <<>>
IdleValidator == raw_plan = EmptyDict /\ schema = EmptyDict /\ passes = <<>> /\ analysis = NoResult
IdleGet == probe = EmptyDict /\ got = NotCalled
IdleApi == response = NoResponse
NotEntered == [workflow_state |-> "ANALYZE", version |-> 0, built |-> FALSE]
IdleGhost == entered = NotEntered
IdlePair == jobs = <<>> /\ files = <<>> /\ now = 1
IdleClients == IdleGet /\ IdleApi /\ IdleGhost /\ IdlePair

Init == InitCoord /\ InitCore /\ IdleHeap /\ IdleCompiler /\ IdleValidator /\ IdleClients

Next == NextCoord

Spec == Init /\ [][Next]_vars

\* The legacy coordinator on its own; the connection manager plays no part.
InitLegacy == InitCoord /\ InitCore /\ conn = FALSE /\ IdleHeap /\ IdleCompiler /\ IdleValidator /\ IdleClients

NextLegacy == NextCore

SpecCore == InitLegacy /\ [][NextLegacy]_vars

\* ContextProtocol instances and their holders.
InitContext == InitCoord /\ InitCore /\ conn = FALSE /\ InitHeap /\ IdleCompiler /\ IdleValidator /\ IdleClients

SpecContext == InitContext /\ [][NextContext]_vars

\* ExtractorAgent and its SQL compiler.
InitExtractor == InitCoord /\ InitCore /\ conn = FALSE /\ IdleHeap /\ InitCompiler /\ IdleValidator /\ IdleClients

SpecCompiler == InitExtractor /\ [][NextCompiler]_vars

\* MetadataAgent and its plan validator.
InitMetadata == InitCoord /\ InitCore /\ conn = FALSE /\ IdleHeap /\ IdleCompiler /\ InitValidator /\ IdleClients

SpecValidator == InitMetadata /\ [][NextValidator]_vars

\* The coordinator when every started execute() is run on: the event loop
\* resumes the coroutine, and each call it awaits returns or raises.
ExecuteStep ==
  \/ Enter
  \/ AnalyzePhase \/ DispatchAnalyze
  \/ ExtractPhase \/ DispatchExtract \/ Connect \/ ExecuteQuery \/ Finally
  \/ VisualizePhase \/ DispatchVisualize
  \/ CompletePhase \/ DispatchComplete
  \/ Unwind \/ Return

SpecTerminating == Init /\ [][Next]_vars /\ WF_vars(ExecuteStep)

\* The coordinator behind the /analyze endpoint.
SpecApi == Init /\ [][NextApi]_vars

\* Two workflows at once.
InitWorkflows == InitCoord /\ InitCore /\ conn = FALSE /\ IdleHeap /\ IdleCompiler /\ IdleValidator /\ IdleGet /\ IdleApi /\ IdleGhost /\ InitPair

SpecPair == InitWorkflows /\ [][NextPair]_vars

\* Callers of ContextProtocol.get.
InitCallers == InitCoord /\ InitCore /\ conn = FALSE /\ IdleHeap /\ IdleCompiler /\ IdleValidator /\ InitGet /\ IdleApi /\ IdleGhost /\ IdlePair

SpecGet == InitCallers /\ [][NextGet]_vars

(***************************************************************************)
(* Properties of the Coordinator workflow.                                 *)
(***************************************************************************)
Clarifications == context.data.clarifications

ReturnedQuestions ==
  {result.details.ambiguities[i].question : i \in DOMAIN result.details.ambiguities}

NoLaterPhase ==
  n.compile = 0 /\ n.connect = 0 /\ n.execute_query = 0 /\ n.render = 0 /\ n.complete = 0

\* C1: in ANALYZE, execute returns clarification_needed exactly when some
\* ambiguity of the analysis result has a question that is not a key of
\* the Context's clarifications; the returned list is exactly those
\* ambiguities, workflow_state stays ANALYZE, the Context is not replaced
\* and no later phase runs.  Otherwise the analysis result is stored as the
\* Context's metadata (one new version) and the workflow goes to EXTRACT.
C1_ClarificationGate ==
  /\ [][(pc = "dispatch" /\ workflow_state = "ANALYZE"
         /\ phase_result.operation = "metadata_analysis")
        => LET unanswered == NotAnswered(phase_result.details.ambiguities, Clarifications)
           IN IF unanswered # <<>>
              THEN /\ result' = ReasoningStep("Coordinator", "clarification_needed",
                                              [ambiguities |-> unanswered])
                   /\ pc' = "unwind"
                   /\ workflow_state' = "ANALYZE"
                   /\ context' = context
                   /\ n' = n
              ELSE /\ result'.operation # "clarification_needed"
                   /\ workflow_state' = "EXTRACT"
                   /\ context'.data.metadata = phase_result.details
                   /\ context'.data.workflow_state = "EXTRACT"
                   /\ context'.version = context.version + 1
                   /\ pc' = "enter"]_vars
  /\ [](result.operation = "clarification_needed"
        => workflow_state = "ANALYZE" /\ stack = <<>> /\ NoLaterPhase
           /\ phase_result.operation = "metadata_analysis")

\* C1 witness: a clarification request is returned in a round in which
\* another question had already been answered.
C1_Witness ==
  /\ pc = "idle"
  /\ result.operation = "clarification_needed"
  /\ ~resubmitted
  /\ DOMAIN Clarifications # {}

\* C2: no question that is a key of the Context's clarifications is in the
\* unresolved list of a clarification_needed result, whatever the Reasoner
\* returned.
C2_AnsweredNotReturned ==
  (result.operation = "clarification_needed" /\ ~resubmitted)
    => ReturnedQuestions \cap DOMAIN Clarifications = {}

\* C2 witness: the Reasoner raised an answered question again, together
\* with a new one, and clarification_needed was returned.
C2_Witness ==
  /\ pc = "idle"
  /\ result.operation = "clarification_needed"
  /\ ~resubmitted
  /\ \E i \in DOMAIN reasoner_output :
       reasoner_output[i].question \in DOMAIN Clarifications

\* C3 (as stated): in the driver's clarification loop a question answered
\* in any earlier round is never returned as unresolved in a later round.
C3_AnsweredEarlierNotReturned ==
  (result.operation = "clarification_needed" /\ ~resubmitted)
    => ReturnedQuestions \cap answered = {}

Successor4 ==
  {<<"ANALYZE", "EXTRACT">>, <<"EXTRACT", "VISUALIZE">>, <<"VISUALIZE", "COMPLETE">>}

Successor5 ==
  {<<"ANALYZE", "EXTRACT">>, <<"EXTRACT", "EXECUTE">>, <<"EXECUTE", "VISUALIZE">>,
   <<"VISUALIZE", "COMPLETE">>}

C5_ErrorShortCircuits ==
  /\ [][(pc = "dispatch" /\ phase_result.operation = "error")
        => /\ pc' = "unwind"
           /\ result' = phase_result
           /\ workflow_state' = workflow_state
           /\ n' = n]_vars
  /\ [][(pc \in {"unwind", "finally"})
        => /\ n' = n
           /\ workflow_state' = workflow_state
           /\ pc' \in {"unwind", "finally", "idle"}]_vars
  /\ []((pc = "idle" /\ phase_result.operation = "error")
        => result.operation = "error")

\* C5 witness: the Renderer returned an error after the query had run, and
\* execute has returned.
C5_Witness ==
  /\ pc = "idle"
  /\ phase_result.operation = "error"
  /\ phase_result.agent = "VisualizationAgent"
  /\ n.execute_query = 1
  /\ n.complete = 0

CompileError ==
  /\ phase_result.agent = "ExtractorAgent"
  /\ phase_result.operation = "error"
  /\ phase_result.details.error # ErrMissingPlan

\* C6: a compilation error is fatal and not retried: the compiler ran
\* exactly once in the call, the Query Executor is never invoked (no
\* connect, no execute_query) and execute returns `error`.
C6_CompileErrorFatal ==
  CompileError
    => /\ n.compile = 1
       /\ n.connect = 0 /\ n.execute_query = 0
       /\ pc \in {"dispatch", "unwind", "idle"}
       /\ pc = "idle" => result.operation = "error"

\* C6 witness: execute has returned after a compilation error.
C6_Witness ==
  /\ pc = "idle"
  /\ CompileError
  /\ result.operation = "error"

\* C7 (as stated): whenever execute returns after the workflow reached
\* EXTRACT, the connection manager holds no open connection, also when it
\* was handed over connected.
C7_ClosedOnEveryExit ==
  (pc = "idle" /\ calls > 0 /\ workflow_state # "ANALYZE") => ~conn

\* C8 (as stated): the connection used for the query is released before
\* the VISUALIZE or COMPLETE phase runs.
C8_ReleasedBeforeVisualize ==
  (pc \in {"handler", "dispatch"} /\ workflow_state \in {"VISUALIZE", "COMPLETE"}
   /\ n.execute_query > 0)
    => ~conn

\* C10 (as stated): a `complete` report carries the SQL text compiled in
\* EXTRACT, the row count the Query Executor reported, the visualization
\* the Renderer produced and a sample of at most 5 rows.
C10_ReportCarriesAll ==
  result.operation = "complete"
    => /\ DictGet(result.details, "sql_query", None) = ContextGet(context, "sql_query", None)
       /\ result.details.row_count = ContextGet(context, "query_result_row_count", 0)
       /\ result.details.visualization_path = artifact
       /\ Len(result.details.final_data_sample) <= SampleRows

(***************************************************************************)
(* Properties of the legacy coordinator (core.py).                         *)
(***************************************************************************)
\* C9 (as stated): at most max_retries attempts per call, an attempt only
\* after the one before raised, and when the last attempt raises execute
\* returns an `error` result with the message and the state name,
\* workflow_state unchanged.
C9_RetryPolicy ==
  /\ Len(core_raised) <= max_retries
  /\ \A i \in 1..(Len(core_raised) - 1) : core_raised[i]
  /\ (core_pc = "idle" /\ Len(core_raised) = max_retries /\ core_raised[max_retries])
       => /\ core_result.operation = "error"
          /\ core_result.details.state = core_state

(***************************************************************************)
(* Properties of ContextProtocol (specification SpecContext).              *)
(***************************************************************************)
\* C11: update is non-mutating.  After c2 = c1.update(m), for any change
\* map m (one with a `version` key included), the snapshot of c1 - and of
\* every other instance that existed - is what it was before the call, and
\* c2.version = c1.version + 1.
C11_UpdateNonMutating ==
  last_op.op = "update" =>
    /\ \A i \in DOMAIN last_op.before : Snapshots[i] = last_op.before[i]
    /\ ctxs[last_op.created].version = last_op.version + 1

C11_Witness ==
  /\ last_op.op = "update"
  /\ "version" \in last_op.keys
  /\ ctxs[last_op.created].version = 1

\* The instances whose snapshot an in-place change of `target` must leave
\* alone: the one it was derived from, and (for log_step) those derived
\* from it.
PairedWith(target, op) ==
  {j \in DOMAIN ctxs \ {target} :
     \/ origin[target].parent = j
     \/ origin[j].parent = target /\ op = "log_step"}

Child(j, target) == IF origin[target].parent = j THEN target ELSE j

CarriedForward ==
  last_op.op = "update" =>
    \A k \in DOMAIN last_op.before[last_op.target] \ (last_op.keys \cup {"version"}) :
      /\ k \in DOMAIN Snapshots[last_op.created]
      /\ Snapshots[last_op.created][k] = last_op.before[last_op.target][k]

Range(seq) == {seq[i] : i \in DOMAIN seq}

WellFormedSelects == SelectSeq(plan_in.initial_select_columns, WellFormedSelect)

Compiled(i) == compilations[i].step.operation = "sql_generation"

Part(i, clause) ==
  LET parts == compilations[i].out.parts
  IN IF \E k \in DOMAIN parts : parts[k].clause = clause
     THEN (CHOOSE k \in DOMAIN parts : parts[k].clause = clause) ELSE 0

PartText(i, clause) == compilations[i].out.parts[Part(i, clause)].text

\* Expressions of the plans that are calculated (contain "||").
CalculatedExpressions == {"t.a || t.b"}

Inconsistent(p) ==
  \E e \in Range(SelectSeq(p.initial_select_columns, WellFormedSelect)) :
    /\ e.expression \notin Range(p.group_by_columns)
    /\ e.alias \notin {p.aggregations[k].alias : k \in DOMAIN p.aggregations}
    /\ e.expression \notin CalculatedExpressions

\* C13: a plan with a select entry that is neither a group-by column, nor an
\* aggregation alias, nor a calculated expression is rejected: execute
\* returns an error and no SQL.
C13_InconsistentPlanRejected ==
  \A i \in DOMAIN compilations :
    Inconsistent(plan_in) => compilations[i].step.operation = "error"

NonPositiveOrNonNumeric(l) ==
  \/ l.kind = "int" /\ l.val <= 0
  \/ l.kind = "float" /\ l.tenths <= 0
  \/ l.kind = "inf" /\ l.sign < 0
  \/ l.kind \in {"text", "list"}

\* C15: a non-positive or non-numeric limit_count never makes compilation
\* fail and gives no LIMIT clause; a LIMIT clause appears only for a
\* positive integer limit_count (an int, or a string of digits), with that
\* value.
C15_LimitOnlyPositiveInteger ==
  \A i \in DOMAIN compilations :
    LET l == plan_in.limit_count
    IN /\ NonPositiveOrNonNumeric(l) =>
            /\ compilations[i].step.operation = "error"
                 => compilations[i].step.details.error # ErrOverflow
            /\ Compiled(i) => Part(i, "LIMIT") = 0
       /\ (Compiled(i) /\ Part(i, "LIMIT") # 0) =>
            /\ l.kind \in {"int", "str"}
            /\ l.val > 0
            /\ PartText(i, "LIMIT") = "LIMIT " \o ToString(l.val)

ClauseOrder == <<"SELECT", "FROM", "JOIN", "WHERE", "GROUP BY", "HAVING", "ORDER BY", "LIMIT">>

Rank(clause) == CHOOSE k \in DOMAIN ClauseOrder : ClauseOrder[k] = clause

InOrder(i) ==
  LET parts == compilations[i].out.parts
  IN /\ \A a, b \in DOMAIN parts : a < b => Rank(parts[a].clause) < Rank(parts[b].clause)
     /\ Part(i, "SELECT") = 1 /\ Part(i, "FROM") = 2
     /\ compilations[i].step.details.sql_query
          = JoinStr([k \in DOMAIN parts |-> parts[k].text], "\n")

PlanFull ==
  [initial_select_columns |-> <<[expression |-> "t.a", alias |-> "t.a"],
                                [expression |-> "COUNT(*)", alias |-> "cnt"]>>,
   initial_tables |-> <<"t">>, initial_joins |-> <<JoinTU>>,
   initial_filters |-> <<[column |-> "t.a", condition |-> "t.a > 1"]>>,
   group_by_columns |-> <<"t.a">>,
   aggregations |-> <<[expression |-> "COUNT(*)", alias |-> "cnt"]>>,
   having_conditions |-> <<[condition |-> "COUNT(*) > 1"]>>,
   order_by_spec |-> [form |-> "dict", spec |-> [column |-> "cnt", direction |-> "desc"]],
   limit_count |-> [kind |-> "int", val |-> 5]]

FullSql ==
  "SELECT t.a AS t.a, COUNT(*) AS cnt\nFROM t\nLEFT JOIN u ON t.id = u.t_id\nWHERE  t.a > 1\nGROUP BY t.a\nHAVING COUNT(*) > 1\nORDER BY cnt DESC\nLIMIT 5"

\* C16 as stated: the clauses come in the fixed order, newline-separated,
\* SELECT and FROM always, and each other clause exactly when its part of
\* the plan is non-empty (LIMIT: when limit_count is a positive number).
C16_ClauseIffPlanPartNonEmpty ==
  \A i \in DOMAIN compilations :
    Compiled(i) =>
      /\ InOrder(i)
      /\ Part(i, "JOIN") # 0 <=> plan_in.initial_joins # <<>>
      /\ Part(i, "WHERE") # 0 <=> plan_in.initial_filters # <<>>
      /\ Part(i, "GROUP BY") # 0 <=> plan_in.group_by_columns # <<>>
      /\ Part(i, "HAVING") # 0 <=> plan_in.having_conditions # <<>>
      /\ Part(i, "ORDER BY") # 0 <=> plan_in.order_by_spec.form # "none"
      /\ Part(i, "LIMIT") # 0 <=>
           PyInt(plan_in.limit_count).exc = "" /\ PyInt(plan_in.limit_count).val > 0

UsableJoins ==
  {k \in DOMAIN plan_in.initial_joins : JoinKeys \subseteq DOMAIN plan_in.initial_joins[k]}

\* C16 (amended): the clauses come in the fixed order, newline-separated,
\* SELECT and FROM always, one JOIN line per join that has all five
\* fields, and each other clause exactly when its part of the plan has a
\* usable entry: a filter with a condition, a group-by column, a having
\* entry with a non-empty condition, a sort spec with a column, a
\* limit_count that int() turns into a positive number.
C16_ClauseIffUsableEntry ==
  \A i \in DOMAIN compilations :
    Compiled(i) =>
      /\ InOrder(i)
      /\ Part(i, "JOIN") # 0 <=> UsableJoins # {}
      /\ Len(compilations[i].out.join_lines) = Cardinality(UsableJoins)
      /\ Part(i, "WHERE") # 0 <=>
           \E k \in DOMAIN plan_in.initial_filters :
             "condition" \in DOMAIN plan_in.initial_filters[k]
      /\ Part(i, "GROUP BY") # 0 <=> plan_in.group_by_columns # <<>>
      /\ Part(i, "HAVING") # 0 <=>
           \E k \in DOMAIN plan_in.having_conditions :
             plan_in.having_conditions[k].condition # ""
      /\ Part(i, "ORDER BY") # 0 <=>
           \/ plan_in.order_by_spec.form = "dict"
                /\ "column" \in DOMAIN plan_in.order_by_spec.spec
           \/ plan_in.order_by_spec.form = "list"
                /\ \E k \in DOMAIN plan_in.order_by_spec.specs :
                     "column" \in DOMAIN plan_in.order_by_spec.specs[k]
      /\ Part(i, "LIMIT") # 0 <=>
           PyInt(plan_in.limit_count).exc = "" /\ PyInt(plan_in.limit_count).val > 0
      /\ plan_in = PlanFull => compilations[i].step.details.sql_query = FullSql

C16_Witness ==
  /\ compilations # <<>>
  /\ plan_in = PlanFull
  /\ Len(compilations[1].out.parts) = 8

PlanScenario ==
  [initial_select_columns |-> <<[expression |-> "t.a", alias |-> "t.a"],
                                [expression |-> "COUNT(*)", alias |-> "cnt"]>>,
   initial_tables |-> <<"t">>, initial_joins |-> <<>>, initial_filters |-> <<>>,
   group_by_columns |-> <<"t.a">>,
   aggregations |-> <<[expression |-> "COUNT(*)", alias |-> "cnt"]>>,
   having_conditions |-> <<>>, order_by_spec |-> [form |-> "none"],
   limit_count |-> [kind |-> "none"]]

ScenarioSql == "SELECT t.a AS t.a, COUNT(*) AS cnt\nFROM t\nGROUP BY t.a"

\* C17: the SELECT clause lists the well-formed initial_select_columns
\* entries in plan order as `expression AS alias`, whatever
\* group_by_columns and aggregations hold; the scenario plan compiles to
\* the three expected lines; with no well-formed entry the compiler fails.
C17_SelectFromSelectColumnsOnly ==
  \A i \in DOMAIN compilations :
    /\ (compilations[i].out # NotInvoked /\ WellFormedSelects = <<>>)
         => ~compilations[i].out.ok /\ compilations[i].step.operation = "error"
    /\ Compiled(i) =>
         PartText(i, "SELECT") =
           "SELECT " \o JoinStr([k \in DOMAIN WellFormedSelects |->
                                   WellFormedSelects[k].expression \o " AS "
                                   \o WellFormedSelects[k].alias], ", ")
    /\ plan_in = PlanScenario =>
         Compiled(i) /\ compilations[i].step.details.sql_query = ScenarioSql

C17_Witness ==
  /\ compilations # <<>>
  /\ Compiled(1)
  /\ Len(WellFormedSelects) < Len(plan_in.initial_select_columns)
  /\ plan_in.group_by_columns # <<>>

SelectAndLimitFine ==
  WellFormedSelects # <<>> /\ plan_in.limit_count.kind # "inf"

\* C18: with at least one join (whose first entry names a left table) the
\* FROM clause names that left table, also when initial_tables is empty; without joins it names
\* the first table; the base-table error comes only with neither.
C18_BaseTable ==
  \A i \in DOMAIN compilations :
    SelectAndLimitFine =>
      /\ (plan_in.initial_joins # <<>> /\ "left_table" \in DOMAIN plan_in.initial_joins[1]) =>
           /\ Compiled(i)
           /\ PartText(i, "FROM") = "FROM " \o plan_in.initial_joins[1].left_table
      /\ (plan_in.initial_joins = <<>> /\ plan_in.initial_tables # <<>>) =>
           /\ Compiled(i)
           /\ PartText(i, "FROM") = "FROM " \o plan_in.initial_tables[1]
      /\ (plan_in.initial_joins = <<>> /\ plan_in.initial_tables = <<>>) =>
           compilations[i].step.operation = "error"


(***************************************************************************)
(* Properties of the plan validator (specification SpecValidator).         *)
(***************************************************************************)
\* C19: the validator is idempotent.  When _validate_result has completed
\* on a plan, running it on its result against the same schema completes
\* and leaves tables, columns, joins, filters, drill_down and ambiguities
\* as they are.
C19_ValidatorIdempotent ==
  \A i \in DOMAIN passes :
    i > 1 => /\ passes[i].exc = ""
             /\ passes[i].plan = passes[i - 1].plan

C19_Witness ==
  /\ Len(passes) = 2
  /\ passes[2].exc = ""
  /\ DOMAIN raw_plan = ExpectedKeys
  /\ passes[1].plan.columns # raw_plan.columns
  /\ passes[1].plan.joins # raw_plan.joins
  /\ passes[1].plan.filters # raw_plan.filters
  /\ passes[1].plan.tables # raw_plan.tables

\* C20: the validator never raises, whatever the Reasoner answered: every
\* pass completes, and MetadataAgent.execute does not return `error`.
C20_ValidatorNeverRaises ==
  /\ \A i \in DOMAIN passes : passes[i].exc = ""
  /\ analysis.operation # "error"

\* C21: the validator drops a well-formed join only if both of its tables
\* are unknown to the schema and neither joined column resolves; a kept
\* join has short column names and type LEFT when the plan gave none, and
\* the kept joins stay in plan order.
Normalised(join) ==
  [left_table |-> join.left_table, left_column |-> [segs |-> ShortName(join.left_column)],
   right_table |-> join.right_table, right_column |-> [segs |-> ShortName(join.right_column)],
   type |-> DictGet(join, "type", "LEFT")]

MayDrop(join, metadata) ==
  /\ join.left_table \notin AllMetaTables(metadata)
  /\ join.right_table \notin AllMetaTables(metadata)
  /\ <<join.left_table>> \o ShortName(join.left_column) \notin DOMAIN AllMetaCols(metadata)
  /\ <<join.right_table>> \o ShortName(join.right_column) \notin DOMAIN AllMetaCols(metadata)

RECURSIVE IsSubSeq(_, _)
IsSubSeq(s, t) ==
  IF s = <<>> THEN TRUE
  ELSE IF t = <<>> THEN FALSE
  ELSE IF Head(s) = Head(t) THEN IsSubSeq(Tail(s), Tail(t))
  ELSE IsSubSeq(s, Tail(t))

RECURSIVE NormalisedWhere(_, _, _)
NormalisedWhere(joins, metadata, all) ==
  IF joins = <<>> THEN <<>>
  ELSE LET rest == NormalisedWhere(Tail(joins), metadata, all)
       IN IF JoinFormatOk(Head(joins)) /\ (all \/ ~MayDrop(Head(joins), metadata))
          THEN <<Normalised(Head(joins))>> \o rest
          ELSE rest

JoinsOf(p) == IF "joins" \in DOMAIN p THEN p.joins ELSE <<>>

C21_JoinDroppedOnlyIfWhollyUnknown ==
  (Len(passes) >= 1 /\ passes[1].exc = "") =>
     /\ IsSubSeq(NormalisedWhere(JoinsOf(raw_plan), schema, FALSE), passes[1].plan.joins)
     /\ IsSubSeq(passes[1].plan.joins, NormalisedWhere(JoinsOf(raw_plan), schema, TRUE))

\* C22: log_step appends exactly one entry at the end of reasoning_steps of
\* the instance it is called on, leaves the earlier entries and every other
\* field as they were and keeps version; an update that does not name
\* reasoning_steps (the coordinator's updates never do) hands the log over
\* whole, so the log of the current Context only grows.
C22_LogStepAppendsOne ==
  /\ last_op.op = "log_step" =>
       LET before == last_op.before[last_op.target]
           after == Snapshots[last_op.target]
           steps == after["reasoning_steps"].items
           earlier == before["reasoning_steps"].items
       IN /\ DOMAIN after = DOMAIN before
          /\ \A k \in DOMAIN before \ {"reasoning_steps"} : after[k] = before[k]
          /\ Len(steps) = Len(earlier) + 1
          /\ SubSeq(steps, 1, Len(earlier)) = earlier
          /\ ctxs[last_op.target].version = last_op.version
  /\ (last_op.op = "update" /\ "reasoning_steps" \notin last_op.keys) =>
       Snapshots[last_op.created]["reasoning_steps"]
         = last_op.before[last_op.target]["reasoning_steps"]

C22_Witness ==
  /\ last_op.op = "log_step"
  /\ last_op.target > 1
  /\ Len(Snapshots[last_op.target]["reasoning_steps"].items) = 2
  /\ Len(Snapshots[origin[last_op.target].parent]["reasoning_steps"].items) = 1

\* C22 along the coordinator's workflow: every step of execute and of the
\* driver leaves the log of the coordinator's Context a prefix of the log
\* after it.
LogOf(c) == DictGet(c.data, "reasoning_steps", <<>>)

C22_CoordinatorLogGrows ==
  [][/\ Len(LogOf(context')) >= Len(LogOf(context))
     /\ SubSeq(LogOf(context'), 1, Len(LogOf(context))) = LogOf(context)]_vars

\* C23: get(key, default) returns the stored value for a key the Context
\* holds and `default` for every other key, method names and `_data`
\* included.
C23_GetReturnsStoredOrDefault ==
  got.called =>
    got.value = IF probe.key \in DOMAIN probe.c.data
                THEN probe.c.data[probe.key]
                ELSE probe.default

\* C24: the /analyze response is tagged `error`, with the message, whenever
\* execute returned `error`, `clarification_needed` whenever it returned
\* clarification_needed, and `success` only when it returned `complete`.
C24_ResponseTagFollowsResult ==
  (pc = "idle" /\ result # NoResult) =>
     /\ result.operation = "error" =>
           /\ response.status = "error"
           /\ response.error_message = result.details.error
     /\ result.operation = "clarification_needed" =>
           response.status = "clarification_needed"
     /\ response.status = "success" => result.operation = "complete"

\* C25: the gates of the legacy coordinator.  Whenever execute reaches the
\* gate or the handler of EXTRACT the Context holds non-empty metadata, and
\* of TRANSFORM it holds raw_data that is not None, so a handler runs only
\* behind a gate that passes; no call ends in validation_failed, and
\* VISUALIZE is never entered.
GateHolds ==
  /\ core_state = "EXTRACT" => DOMAIN core_context.data["metadata"] # {}
  /\ core_state = "TRANSFORM" =>
        /\ "raw_data" \in DOMAIN core_context.data
        /\ core_context.data["raw_data"] # PyNone

HandlerCalls(state) ==
  CASE state = "ANALYZE" -> n.analyze
    [] state = "EXTRACT" -> n.extract
    [] state = "VISUALIZE" -> n.render
    [] OTHER -> n.complete

C26_ResumesAtStoredState ==
  LET S == entered.workflow_state
  IN /\ (entered.built /\ pc = "idle") =>
          workflow_state = IF "workflow_state" \in DOMAIN context.data
                           THEN context.data["workflow_state"]
                           ELSE "ANALYZE"
     /\ calls > 0 =>
          /\ n.analyze + n.extract + n.render + n.complete > 0 => HandlerCalls(S) > 0
          /\ S # "ANALYZE" => n.analyze = 0
          /\ S \in {"VISUALIZE", "COMPLETE"} =>
                n.extract = 0 /\ n.compile = 0 /\ n.connect = 0 /\ n.execute_query = 0
          /\ S = "COMPLETE" =>
                /\ n.render = 0
                /\ pc \in {"unwind", "idle"} => result.operation = "complete"

C26_Witness ==
  /\ entered.built
  /\ entered.workflow_state = "COMPLETE"
  /\ pc = "unwind"
  /\ result.operation = "complete"
  /\ n.complete = 1

\* C27: two workflows running at once, each with its own Context and
\* connection manager, never write their rows to the same result path, and
\* the VISUALIZE and COMPLETE phases of a workflow read only the rows its
\* own query produced.
Written(i) == jobs[i].pc \in {"visualize", "complete", "done"}

C27_NoSharedResultLocation ==
  /\ \A i, j \in Workflows :
        (i # j /\ Written(i) /\ Written(j)) => jobs[i].path # jobs[j].path
  /\ \A i \in Workflows : jobs[i].seen \subseteq {i}

\* C27 for workflows of different projects.
C27_DistinctProjectsApart ==
  (jobs[1].project_id # jobs[2].project_id) => C27_NoSharedResultLocation

\* C28: when connect or execute_query raises, execute returns an error
\* that carries the failed SQL text, workflow_state stays EXTRACT, the
\* Context is as it was before the step (same version, no sql_query,
\* query_result_path or query_result_row_count) and the Renderer is not
\* invoked.
ExecuteStepRaised ==
  /\ pc \in {"finally", "unwind", "idle"}
  /\ n.connect > 0
  /\ workflow_state = "EXTRACT"

ContextBeforeExecuteStep ==
  /\ context.version = entered.version + (IF entered.workflow_state = "ANALYZE" THEN 1 ELSE 0)
  /\ DOMAIN context.data \cap {"sql_query", "query_result_path", "query_result_row_count"} = {}
  /\ ContextGet(context, "workflow_state", "ANALYZE") = "EXTRACT"

C28_ExecutionFailureReported ==
  ExecuteStepRaised =>
    /\ result.operation = "error"
    /\ "sql_query" \in DOMAIN result.details
    /\ result.details["sql_query"] = phase_result.details["sql_query"]
    /\ ContextBeforeExecuteStep
    /\ n.render = 0

\* C28 without the SQL text: what holds whether or not close() raises
\* after the failure.
C28_FailureLeavesContext ==
  ExecuteStepRaised =>
    /\ result.operation = "error"
    /\ result # Raised => result.details["sql_query"] = phase_result.details["sql_query"]
    /\ ContextBeforeExecuteStep
    /\ n.render = 0

\* C29: the workflow_state stored in the Context is the coordinator's;
\* every transition raises the Context version by exactly 1, so a call
\* that goes from ANALYZE to `complete` ends 3 versions above its start;
\* from EXTRACT on the Context holds the analysed plan as metadata, and in
\* VISUALIZE and COMPLETE it holds sql_query, query_result_path and
\* query_result_row_count.
StoredState == ContextGet(context, "workflow_state", "ANALYZE")

C29_StateInvariant ==
  /\ workflow_state = StoredState
  /\ workflow_state # "ANALYZE" =>
        /\ "workflow_state" \in DOMAIN context.data
        /\ ExpectedKeys \subseteq DOMAIN context.data["metadata"]
  /\ workflow_state \in {"VISUALIZE", "COMPLETE"} =>
        {"sql_query", "query_result_path", "query_result_row_count"} \subseteq DOMAIN context.data
  /\ (entered.workflow_state = "ANALYZE" /\ pc \in {"unwind", "idle"}
        /\ result.operation = "complete") => context.version = entered.version + 3

C29_Transition ==
  workflow_state' # workflow_state =>
    /\ context'.version = context.version + 1
    /\ workflow_state = "ANALYZE" => context'.data["metadata"] = phase_result.details
    /\ workflow_state = "EXTRACT" =>
          context'.data["sql_query"] = phase_result.details["sql_query"]

C29_ContextTracksState == [](C29_StateInvariant) /\ [][C29_Transition]_vars

C29_Witness ==
  /\ entered.workflow_state = "ANALYZE"
  /\ pc = "idle"
  /\ result.operation = "complete"
  /\ workflow_state = "COMPLETE"
  /\ context.version = entered.version + 3
  /\ entered.version > 0

\* C30: every call of execute terminates and returns to its caller; in one
\* top-level call each phase handler, the compiler and the executor are
\* invoked at most once; the operation returned is clarification_needed,
\* error or complete, also when a handler, the executor or close raised.
C30_AtMostOnce ==
  /\ \A k \in DOMAIN n : n[k] <= 1
  /\ Len(stack) <= 3
  /\ (pc = "idle" /\ result # NoResult) =>
        result.operation \in {"clarification_needed", "error", "complete"}

\* Phases still ahead of a frame in this state, its position inside the
\* frame, and the frames and finally blocks still to be left on the way
\* out: a measure that every step of a running execute() lowers.
PhasesAhead ==
  CASE workflow_state = "ANALYZE" -> 4
    [] workflow_state = "EXTRACT" -> 3
    [] workflow_state = "VISUALIZE" -> 2
    [] OTHER -> 1

StepsLeft ==
  CASE pc = "enter" -> 10 * PhasesAhead + 5
    [] pc = "handler" -> 10 * PhasesAhead + 4
    [] pc = "dispatch" -> 10 * PhasesAhead + 3
    [] pc = "connect" -> 10 * PhasesAhead + 2
    [] pc = "query" -> 10 * PhasesAhead + 1
    [] pc = "finally" -> 2 * Len(stack) + 2
    [] pc = "unwind" -> 2 * Len(stack) + 1
    [] OTHER -> 0

\* The guards of the steps of execute(): a running call always has a
\* step to take.
Runnable ==
  \/ pc \in {"enter", "query", "finally", "unwind"}
  \/ pc \in {"handler", "dispatch"}
       /\ workflow_state \in {"ANALYZE", "EXTRACT", "VISUALIZE", "COMPLETE"}
  \/ pc = "connect" /\ {clock, clock + 1} \cap Timestamps # {}

C30_ExecuteTerminates ==
  /\ [](C30_AtMostOnce /\ (pc # "idle" => Runnable))
  /\ [][(pc # "idle") => StepsLeft' < StepsLeft]_vars

C30_Witness ==
  /\ pc = "idle"
  /\ calls = 2
  /\ result = Raised
  /\ n.execute_query = 1
  /\ n.render = 1

\* C30 as a liveness property of the coordinator run under weak fairness
\* of its steps: a started execute() returns.
C30_Returns == (pc # "idle") ~> (pc = "idle")

====
